---- MODULE Spec2Model ----
(***************************************************************************)
(* Extraction orchestration of docflow: the engine's _single_call with its *)
(* repair loop, extract and extract_grouped (core/extraction/engine.py),   *)
(* and the concurrent /extract handler (service/handlers/http_extract.py). *)
(* The helper functions of those files (worker count, option merging,      *)
(* prompt composition, result meta, validation, normalization, document    *)
(* loading), the responses of service/main.py and the checks of the SDK    *)
(* client (sdk/client.py) are exercised one call at a time by the          *)
(* specification SpecFn: `arg` is the call, `ret` what it returned.        *)
(* SpecUnit runs _single_call alone against a provider stub that records   *)
(* the calls it receives in `stubCalls`.                                   *)
(* SpecHttp is the HTTP handler alone under the fairness of its scheduling, *)
(* SpecShared follows its units on the provider they share (providerState, *)
(* metas), and SpecEvents the requests of the events entrypoint of         *)
(* service/main.py with the result bucket and the output topic they share  *)
(* (environ, events, bucket, topic).                                       *)
(***************************************************************************)
EXTENDS FiniteSets, Integers, Sequences, TLC

VARIABLES req, call, units, sem, provCalls, loads, resp, arg, ret, stubCalls,
          providerState, metas, environ, events, bucket, topic

vars == <<req, call, units, sem, provCalls, loads, resp, arg, ret, stubCalls,
          providerState, metas, environ, events, bucket, topic>>

(***************************************************************************)
(* Bounds of the model.                                                    *)
(***************************************************************************)
\* largest repair_attempts value a caller of the engine passes
MaxRepair == 2
\* largest number of document groups in a grouped request
MaxGroups == 2

(***************************************************************************)
(* Configuration.                                                          *)
(***************************************************************************)
\* config.MAX_DOCS_PER_EXTRACTION (docflow/core/config.py)
MAX_DOCS_PER_EXTRACTION == 2
\* RepairConfig.max_attempts: Field(default=1, ge=1, le=2)
RepairMaxAttemptsLe == 2

Max(a, b) == IF a >= b THEN a ELSE b
Min(a, b) == IF a <= b THEN a ELSE b

(***************************************************************************)
(* JSON values the provider returns, over the schema                       *)
(*   global_fields: title (string, required)                               *)
(*   record_sets:   items [qty (integer)]                                  *)
(* A value is an object or not; a key is ABSENT, NULL or carries a value;  *)
(* the record-set member is absent, a scalar, or an array of records.      *)
(***************************************************************************)
Rec(isObj, qty) == [obj |-> isObj, qty |-> qty]

Json(isObj, title, itemsSt, recs, extra) ==
    [obj |-> isObj, title |-> title, items |-> [st |-> itemsSt, recs |-> recs],
     extra |-> extra]

\* no value (Python None / unbound local)
NoOut == Json(FALSE, "ABSENT", "absent", <<>>, "ABSENT")

\* {"title": "Invoice", "items": [{"qty": 3}]}
ValidFull == Json(TRUE, "Invoice", "array", <<Rec(TRUE, "3")>>, "ABSENT")
\* {"title": "Invoice", "items": [{}], "note": "x"}
ValidSparse == Json(TRUE, "Invoice", "array", <<Rec(TRUE, "ABSENT")>>, "x")
\* {"items": []}
BadMissingTitle == Json(TRUE, "ABSENT", "array", <<>>, "ABSENT")
\* {"title": "Invoice", "items": "x"}
BadItemsScalar == Json(TRUE, "Invoice", "scalar", <<>>, "ABSENT")

\* the outputs a provider call can return
ProviderOutputs == {ValidFull, ValidSparse, BadMissingTitle, BadItemsScalar}

(***************************************************************************)
(* Schema model: validate_output and normalize_output.                     *)
(***************************************************************************)
\* a schema over the keys of these values: `title` is a required global
\* field, an optional one, or not declared; `items` is a declared record set
\* (with the field qty) or not declared
Schema(title, items) == [title |-> title, items |-> items]
Schemas == [title : {"required", "optional", "undeclared"}, items : BOOLEAN]

\* the schema of the extraction requests
TargetSchema == Schema("required", TRUE)

\* values of another type than the declared one: a number for the string
\* title, a string for the integer qty
TitleValues == {"ABSENT", "NULL", "Invoice", "12"}
QtyValues == {"ABSENT", "NULL", "3", "three"}

\* variant: a value of another type than the declared one is rejected
validate_strict(S, v) ==
    IF ~v.obj THEN "output must be an object"
    ELSE IF S.title = "required" /\ v.title = "ABSENT"
         THEN "missing required field: title"
    ELSE IF S.title # "undeclared" /\ v.title = "12" THEN "title must be a string"
    ELSE IF S.items /\ v.items.st = "scalar" THEN "items must be an array"
    ELSE IF S.items /\ v.items.st = "array"
            /\ \E k \in 1..Len(v.items.recs) : ~v.items.recs[k].obj
         THEN "items entries must be objects"
    ELSE IF S.items /\ v.items.st = "array"
            /\ \E k \in 1..Len(v.items.recs) : v.items.recs[k].qty = "three"
         THEN "qty must be an integer"
    ELSE ""

\* the message of the SchemaValidationError validate raises on v, "" when v
\* passes
validate(S, v) ==
    IF ~v.obj THEN "output must be an object"
    ELSE IF S.title = "required" /\ v.title = "ABSENT"
         THEN "missing required field: title"
    ELSE IF S.items /\ v.items.st = "scalar" THEN "items must be an array"
    ELSE IF S.items /\ v.items.st = "array"
            /\ \E k \in 1..Len(v.items.recs) : ~v.items.recs[k].obj
         THEN "items entries must be objects"
    ELSE ""

\* a record gets its declared field; an array entry that is no object has no
\* fields to fill
normalize_record(r) ==
    [r EXCEPT !.qty = IF r.obj /\ r.qty = "ABSENT" THEN "NULL" ELSE r.qty]

\* variant: a missing record set is filled with one record whose own fields
\* are left as they are
normalize_unfilled_default(S, v) ==
    [obj |-> v.obj,
     title |-> IF S.title # "undeclared" /\ v.title = "ABSENT" THEN "NULL"
               ELSE v.title,
     items |-> IF ~S.items THEN v.items
               ELSE [st |-> "array",
                     recs |-> IF v.items.st = "array"
                              THEN [k \in 1..Len(v.items.recs) |->
                                      normalize_record(v.items.recs[k])]
                              ELSE <<Rec(TRUE, "ABSENT")>>],
     extra |-> v.extra]

\* declared global fields and record sets are filled in, undeclared keys
\* pass through
normalize(S, v) ==
    [obj |-> v.obj,
     title |-> IF S.title # "undeclared" /\ v.title = "ABSENT" THEN "NULL"
               ELSE v.title,
     items |-> IF ~S.items THEN v.items
               ELSE [st |-> "array",
                     recs |-> IF v.items.st = "array"
                              THEN [k \in 1..Len(v.items.recs) |->
                                      normalize_record(v.items.recs[k])]
                              ELSE <<>>],
     extra |-> v.extra]

\* validate_output / normalize_output with the schema of the request
validate_output(v) == validate(TargetSchema, v)
normalize_output(v) == normalize(TargetSchema, v)

\* a provider output on which validate_output / normalize_output raise an
\* error that is no SchemaValidationError
Unprocessable == Json(TRUE, "Invoice", "array", <<>>, "unprocessable")

(***************************************************************************)
(* Errors.  The message of an error is what str(exc) gives.                *)
(***************************************************************************)
Err(type, msg) == [type |-> type, msg |-> msg]
NoErr == Err("none", "")
SchemaValidationError(msg) == Err("SchemaValidationError", msg)
ProviderError == Err("ProviderError", "provider call failed")
TooManyDocuments == Err("ExtractionError", "Too many documents for a single extraction")
NoDocuments == Err("DocumentError", "No documents provided")
NoGroups == Err("DocumentError", "No groups provided")
LoadFailed == Err("DocumentError", "document could not be loaded")
UnexpectedError == Err("TypeError", "unexpected value")

\* what `validate_output(...); normalize_output(...)` raise on v, NoErr when
\* they pass
validation_exception(v) ==
    IF v = Unprocessable THEN UnexpectedError
    ELSE IF validate_output(v) = "" THEN NoErr
    ELSE SchemaValidationError(validate_output(v))

(***************************************************************************)
(* A work unit: one _single_call chain and the locals of its frame.        *)
(*   pc: "waiting" (not started), "ready" (started, initial call not made),*)
(*       "repair" (inside the repair loop), "ok" (returned), "err" (raised)*)
(***************************************************************************)
\* one generate_structured call: the attachments it was given, for a repair
\* call the error message and the JSON embedded in the repair prompt, and
\* whether it raised ProviderError instead of returning
CallRec(att, isRepair, errMsg, json) ==
    [att |-> att, repair |-> isRepair, err |-> errMsg, json |-> json,
     raised |-> FALSE]
NoCall == CallRec(<<>>, FALSE, "", NoOut)

\* the provider is invoked once more, with call record c
invoke(f, c) == [f EXCEPT !.ncalls = @ + 1, !.lastCall = c]

\* the call just made raised
call_raised(f) == [f EXCEPT !.lastCall.raised = TRUE]

Unit(gid, docs, label, att) ==
    [pc |-> "waiting", gid |-> gid, docs |-> docs, label |-> label, att |-> att,
     ncalls |-> 0, lastCall |-> NoCall, data |-> NoOut, exc |-> NoErr, last |-> NoOut,
     error_msg |-> "", i |-> 0, repaired |-> NoOut, payload |-> NoOut, err |-> NoErr]

\* ExtractionResult(data, meta) of a unit that returned
Result(data, docs, mode) == [data |-> data, docs |-> docs, mode |-> mode]
NoResult == Result(NoOut, <<>>, "none")
unit_result(f) == Result(f.payload, f.docs, f.label)

\* variant: a zero repair_attempts also enters the repair loop
RepairEnabled_zero(n) == n >= 0

\* `if repair_attempts and repair_attempts > 0`
RepairEnabled(n) == n > 0

\* variant: the loop runs one iteration too many
RepairBound_offbyone(n) == Max(1, n) + 1

\* `for _ in range(max(1, repair_attempts))`
RepairBound(n) == Max(1, n)

\* variant: the error of the last repaired output is raised
ExhaustedError_last(f) == SchemaValidationError(f.error_msg)

\* the bare `raise` of the loop's else branch: the exception being handled
\* there is the one bound by the enclosing `except Exception as exc`
ExhaustedError(f) == f.exc

\* variant: the previous (invalid) JSON is normalized instead of the repaired one
RepairedPayload_stale(f, repaired) == normalize_output(f.last)

\* `payload = normalize_output(internal_schema, repaired)`
RepairedPayload(f, repaired) == normalize_output(repaired)

\* `payload = normalize_output(internal_schema, data)`
FirstPayload(data) == normalize_output(data)

\* variant: the output is normalized although there is no schema
RawPayload_normalized(data) == normalize_output(data)

\* `payload = data` (no schema)
RawPayload(data) == data

\* a raised exception leaves _single_call
raise_from(f, e) == [f EXCEPT !.pc = "err", !.err = e]

\* variant: the repair call sits inside the inner try, its error is swallowed
\* and the loop goes on
repair_call_failed_swallowed(f) ==
    [call_raised(invoke(f, CallRec(<<>>, TRUE, f.error_msg, f.last))) EXCEPT !.i = @ + 1]

\* generate_structured raised inside the repair loop: the call sits outside
\* the inner try, so the error leaves the loop and the function
repair_call_failed(f) ==
    raise_from(call_raised(invoke(f, CallRec(<<>>, TRUE, f.error_msg, f.last))),
               ProviderError)

\* generate_structured raised on the initial call (outside any try)
first_call_failed(f) ==
    raise_from(call_raised(invoke(f, CallRec(f.att, FALSE, "", NoOut))),
               ProviderError)

\* _single_call from its entry until the repair loop is entered or it ends:
\* the initial provider call returned `data`
single_call(f, data, schemaNull, repair_attempts) ==
    LET g == [invoke(f, CallRec(f.att, FALSE, "", NoOut)) EXCEPT !.data = data]
        exc == validation_exception(data)
    IN  IF schemaNull
        THEN [g EXCEPT !.pc = "ok", !.payload = RawPayload(data)]
        ELSE IF exc = NoErr
        THEN [g EXCEPT !.pc = "ok", !.payload = FirstPayload(data)]
        ELSE IF RepairEnabled(repair_attempts)
        THEN [g EXCEPT !.pc = "repair", !.exc = exc,
                       !.last = data, !.error_msg = exc.msg, !.i = 0]
        ELSE raise_from([g EXCEPT !.exc = exc], exc)

\* variant: the error message and the JSON of the repair prompt are not
\* refreshed after a failed repair
repair_iteration_stale_prompt(f, repaired, repair_attempts) ==
    LET g == [invoke(f, CallRec(<<>>, TRUE, f.error_msg, f.last))
                EXCEPT !.repaired = repaired]
        repair_exc == validation_exception(repaired)
    IN  IF repair_exc = NoErr
        THEN [g EXCEPT !.pc = "ok", !.payload = RepairedPayload(f, repaired)]
        ELSE LET h == [g EXCEPT !.i = @ + 1]
             IN  IF h.i >= RepairBound(repair_attempts)
                 THEN raise_from(h, ExhaustedError(h))
                 ELSE h

\* one iteration of the repair loop: the repair call returned `repaired`
repair_iteration(f, repaired, repair_attempts) ==
    LET g == [invoke(f, CallRec(<<>>, TRUE, f.error_msg, f.last))
                EXCEPT !.repaired = repaired]
        repair_exc == validation_exception(repaired)
    IN  IF repair_exc = NoErr
        THEN [g EXCEPT !.pc = "ok", !.payload = RepairedPayload(f, repaired)]
        ELSE LET h == [g EXCEPT !.last = repaired, !.error_msg = repair_exc.msg,
                                !.i = @ + 1]
             IN  IF h.i >= RepairBound(repair_attempts)
                 THEN raise_from(h, ExhaustedError(h))
                 ELSE h

(***************************************************************************)
(* Requests.  A document is identified by its position in the request;     *)
(* its display name is that identifier.                                    *)
(***************************************************************************)
DocSeq(first, n) == [k \in 1..n |-> first + k - 1]

GroupIds == {"g1", "g2"}

Group(id, docs) == [id |-> id, docs |-> docs]

\* the groups of a request: group ids chosen freely (the first is "g1"),
\* `size` documents per group, documents numbered through the request
GroupLists ==
    {<<>>} \cup
    UNION {
      UNION {
        { [k \in 1..n |-> Group(ids[k], DocSeq((k - 1) * size + 1, size))] :
            ids \in {f \in [1..n -> GroupIds] : f[1] = "g1"} }
        : size \in 1..MAX_DOCS_PER_EXTRACTION }
      : n \in 1..MaxGroups }

RECURSIVE SumLen(_)
\* sum(len(g[1]) for g in docs_groups)
SumLen(gs) == IF gs = <<>> THEN 0 ELSE Len(Head(gs).docs) + SumLen(Tail(gs))

\* Python None where a string is expected ("None" is not a value a caller
\* passes as a string)
None == "None"

\* truthiness of an optional string: None and "" are falsy
Truthy(s) == s # None /\ s # ""

\* variant: the right operand wins whenever it is truthy
Or_second(a, b) == IF Truthy(b) THEN b ELSE a

\* `a or b` on optional strings
Or(a, b) == IF Truthy(a) THEN a ELSE b

\* config.DEFAULT_MULTI_MODE (docflow/core/config.py)
DEFAULT_MULTI_MODE == "per_file"

\* `{"per_file", "aggregate", "both"}`
MultiModes == {"per_file", "aggregate", "both"}

\* the `profile` argument of extract: absent, or an ExtractionProfile with
\* its multi_mode_default
NoProfile == [present |-> FALSE, multi_mode_default |-> None]
Profile(mmd) == [present |-> TRUE, multi_mode_default |-> mmd]

\* variant: the profile default is consulted before the caller's argument
resolved_mode_profile_first(profile, multi_mode) ==
    Or(Or(IF profile.present THEN profile.multi_mode_default ELSE None, multi_mode),
       DEFAULT_MULTI_MODE)

\* `multi_mode or (profile.multi_mode_default if profile else None)
\*    or config.DEFAULT_MULTI_MODE`
resolved_mode(profile, multi_mode) ==
    Or(Or(multi_mode, IF profile.present THEN profile.multi_mode_default ELSE None),
       DEFAULT_MULTI_MODE)

\* ExtractionError(f"Invalid multi-mode: {mode}")
InvalidMode(mode) == Err("ExtractionError", "Invalid multi-mode: " \o mode)

\* the error _resolve_multi_mode raises, NoErr when it returns the mode
resolve_multi_mode(profile, multi_mode) ==
    LET mode == resolved_mode(profile, multi_mode)
    IN  IF mode \notin MultiModes THEN InvalidMode(mode) ELSE NoErr

NoWorkers == [given |-> FALSE, v |-> 0]
NoCfg == [default_workers |-> 1, max_workers |-> 1]
NoRepairCfg == [enabled |-> FALSE, max_attempts |-> 1]

\* a call: `mode` is the multi_mode argument of extract, the mode of an HTTP
\* payload, "grouped" for extract_grouped
Request(entry, mode, docs, groups, ra, sn, uo, prof, repair, workers, cfg) ==
    [entry |-> entry, mode |-> mode, docs |-> docs, groups |-> groups,
     repair_attempts |-> ra, schemaNull |-> sn, uriOnly |-> uo, profile |-> prof,
     repair |-> repair, workers |-> workers, cfg |-> cfg]

\* the multi_mode arguments and the profiles extract is called with
MultiModeArgs == {None, "", "per_file", "aggregate", "both", "bogus"}
ProfileArgs == {NoProfile, Profile(None), Profile("aggregate"), Profile("bogus")}

\* calls of engine.extract
ExtractRequests ==
    { Request("extract", mode, DocSeq(1, n), <<>>, ra, sn, uo, prof,
              NoRepairCfg, NoWorkers, NoCfg) :
        mode \in MultiModeArgs, prof \in ProfileArgs,
        n \in 0..(MAX_DOCS_PER_EXTRACTION + 1),
        ra \in (-1)..MaxRepair, sn \in BOOLEAN, uo \in BOOLEAN }

\* calls of engine.extract_grouped
GroupedRequests ==
    { Request("extract_grouped", "grouped", <<>>, gs, ra, sn, uo, NoProfile,
              NoRepairCfg, NoWorkers, NoCfg) :
        gs \in GroupLists, ra \in (-1)..MaxRepair, sn \in BOOLEAN, uo \in BOOLEAN }

\* payload.workers: absent, or an integer
WorkerChoices == {NoWorkers, [given |-> TRUE, v |-> 0], [given |-> TRUE, v |-> 2]}
\* cfg.default_workers, cfg.max_workers
CfgChoices == {[default_workers |-> 4, max_workers |-> 3]}
\* payload.repair
RepairChoices == [enabled : BOOLEAN, max_attempts : 1..RepairMaxAttemptsLe]

\* the groups of a grouped payload: at least one group, and no more documents
\* in all than the other payloads carry
HttpGroupLists ==
    {gs \in GroupLists : gs # <<>> /\ SumLen(gs) <= MAX_DOCS_PER_EXTRACTION + 1}

\* what catalog_load_profile finds under profile_path: a profile, or nothing
\* (FileNotFoundError)
HttpProfiles == {Profile(None), NoProfile}

\* accepted POST /extract payloads (ExtractionRequest.validate_inputs passed)
HttpRequests ==
    { Request("http", mode, DocSeq(1, n), <<>>, 0, FALSE, TRUE, p, rc, w, c) :
        mode \in {"single", "per_file"},
        n \in 1..(MAX_DOCS_PER_EXTRACTION + 1), p \in HttpProfiles,
        rc \in RepairChoices, w \in WorkerChoices, c \in CfgChoices }
    \cup
    { Request("http", "grouped", <<>>, gs, 0, FALSE, TRUE, p, rc, w, c) :
        gs \in HttpGroupLists, p \in HttpProfiles,
        rc \in RepairChoices, w \in WorkerChoices, c \in CfgChoices }

\* `attempts = payload.repair.max_attempts if payload.repair.enabled else 0`
http_attempts(r) == IF r.enabled THEN r.max_attempts ELSE 0

\* repair_attempts as _single_call receives it
Attempts == IF req.entry = "http" THEN http_attempts(req.repair)
            ELSE req.repair_attempts

\* the mode of the call: for extract the one _resolve_multi_mode returns
Mode == IF req.entry = "extract" THEN resolved_mode(req.profile, req.mode)
        ELSE req.mode

(***************************************************************************)
(* engine.extract / extract_grouped: guards and work units.                *)
(***************************************************************************)
\* variant: the limit is compared off by one
TooMany_offbyone(n) == n > MAX_DOCS_PER_EXTRACTION + 1

\* `len(docs) > config.MAX_DOCS_PER_EXTRACTION`
TooMany(n) == n > MAX_DOCS_PER_EXTRACTION

\* variant: an empty document list passes
extract_guard_allows_empty(docs) ==
    IF TooMany(Len(docs)) THEN TooManyDocuments ELSE NoErr

\* the error of extract's document-count checks, NoErr when they pass
extract_guard(docs) ==
    IF Len(docs) = 0 THEN NoDocuments
    ELSE IF TooMany(Len(docs)) THEN TooManyDocuments
    ELSE NoErr

\* the error extract raises before any work (the document-count checks,
\* then _resolve_multi_mode), NoErr when it goes on
extract_entry(r) ==
    IF extract_guard(r.docs) # NoErr THEN extract_guard(r.docs)
    ELSE resolve_multi_mode(r.profile, r.mode)

\* the error extract_grouped raises before any work, NoErr when it goes on
extract_grouped_guard(groups) ==
    IF Len(groups) = 0 THEN NoGroups
    ELSE IF TooMany(SumLen(groups)) THEN TooManyDocuments
    ELSE NoErr

\* variant: every per-file unit is given all loaded documents
PerFileAttachments_all(loaded, k) == loaded

\* `attachments=[(name, content)]` of the per-file unit of document k
PerFileAttachments(loaded, k) == <<loaded[k]>>

\* the units extract runs, in the order it runs them
extract_units(docs, mode) ==
    (IF mode \in {"per_file", "both"}
     THEN [k \in 1..Len(docs) |->
             Unit("", <<docs[k]>>, "per_file", PerFileAttachments(docs, k))]
     ELSE <<>>)
    \o
    (IF mode \in {"aggregate", "both"}
     THEN <<Unit("", docs, "aggregate", docs)>>
     ELSE <<>>)

\* the units extract_grouped runs, one per group in the caller's order
grouped_units(groups) ==
    [k \in 1..Len(groups) |->
       Unit(groups[k].id, groups[k].docs, "grouped", groups[k].docs)]

\* `items` of the HTTP handler: (item_id, docs) per work unit; each is run
\* by df_extract(..., multi_mode="aggregate")
http_items(r) ==
    IF r.mode = "single" THEN <<Unit("item-1", r.docs, "aggregate", r.docs)>>
    ELSE IF r.mode = "per_file"
    THEN [k \in 1..Len(r.docs) |->
            Unit("item-" \o ToString(k), <<r.docs[k]>>, "aggregate", <<r.docs[k]>>)]
    ELSE [k \in 1..Len(r.groups) |->
            Unit(r.groups[k].id, r.groups[k].docs, "aggregate", r.groups[k].docs)]

\* `requested_workers` and `max_workers` of the HTTP handler
requested_workers(r) ==
    IF r.workers.given THEN r.workers.v ELSE Max(1, r.cfg.default_workers)

\* variant: the requested and the configured values are used as they come
max_workers_unclamped(r) ==
    Min(Min(requested_workers(r), r.cfg.max_workers), Len(http_items(r)))

max_workers(r) ==
    Min(Min(Max(1, requested_workers(r)), Max(1, r.cfg.max_workers)),
        Len(http_items(r)))

(***************************************************************************)
(* Responses.                                                              *)
(***************************************************************************)
Response(kind, per, agg, groups, err, status) ==
    [kind |-> kind, per |-> per, agg |-> agg, groups |-> groups, err |-> err,
     status |-> status]
NoResponse == Response("none", <<>>, NoResult, <<>>, NoErr, 0)
Raised(e) == Response("error", <<>>, NoResult, <<>>, e, 0)
GroupEntry(id, result) == [group_id |-> id, result |-> result]

\* a call of a helper function and what it returned
Call(fn, in) == [fn |-> fn, in |-> in]
Return(fn, out) == [fn |-> fn, out |-> out]
NoArg == Call("none", <<>>)
NoRet == Return("none", <<>>)

AllOk(us) == \A u \in 1..Len(us) : us[u].pc = "ok"
Finished(f) == f.pc \in {"ok", "err"}

\* the events entrypoint is not in use: no configuration, no event request,
\* nothing stored, nothing published
NoEvents ==
    /\ environ = [BUCKET_NAME |-> "", OUTPUT_TOPIC |-> ""]
    /\ events = <<>>
    /\ bucket = <<>>
    /\ topic = <<>>

\* GeminiProvider.__init__: no call made yet.  last_usage names the call
\* whose usage_metadata it holds (unit 0: None); model_by is the unit whose
\* call wrote last_model (0: nobody), kept for the properties only
NoUsage == [unit |-> 0, call |-> 0]
NewProvider == [last_model |-> None, model_by |-> 0, last_usage |-> NoUsage]

Init ==
    /\ req \in ExtractRequests \cup GroupedRequests \cup HttpRequests
    /\ call = "start"
    /\ units = <<>>
    /\ sem = 0
    /\ provCalls = 0
    /\ loads = 0
    /\ resp = NoResponse
    /\ arg = NoArg
    /\ ret = NoRet
    /\ stubCalls = <<>>
    /\ providerState = NewProvider
    /\ metas = <<>>
    /\ NoEvents

(***************************************************************************)
(* Provider outcomes: a call returns one of ProviderOutputs or raises      *)
(* ProviderError (written NoOut here).                                     *)
(***************************************************************************)
Outcomes == ProviderOutputs \cup {NoOut}

after_first(f, o) ==
    IF o = NoOut THEN first_call_failed(f)
    ELSE single_call(f, o, req.schemaNull, Attempts)

after_repair(f, o) ==
    IF o = NoOut THEN repair_call_failed(f)
    ELSE repair_iteration(f, o, Attempts)

SetMin(S) == CHOOSE x \in S : \A y \in S : x <= y
SetMax(S) == CHOOSE x \in S : \A y \in S : x >= y

(***************************************************************************)
(* engine.extract and engine.extract_grouped (sequential).                 *)
(***************************************************************************)
\* `results.append(...)` / `items.append(...)`
append_result(results, r) == Append(results, r)

\* what the engine keeps of a unit that just moved to frame f
engine_keep(f) ==
    IF f.pc = "err" THEN Raised(f.err)
    ELSE IF f.pc # "ok" THEN resp
    ELSE IF f.label = "per_file"
    THEN [resp EXCEPT !.per = append_result(@, unit_result(f))]
    ELSE IF f.label = "aggregate"
    THEN [resp EXCEPT !.agg = unit_result(f)]
    ELSE [resp EXCEPT !.groups = append_result(@, GroupEntry(f.gid, unit_result(f)))]

\* extract: entry checks and the loading of every document
ExtractBegin ==
    /\ req.entry = "extract"
    /\ call = "start"
    /\ LET e == extract_entry(req)
       IN  IF e # NoErr
           THEN /\ call' = "raised"
                /\ resp' = Raised(e)
                /\ UNCHANGED <<units, loads>>
           ELSE \E failAt \in 0..Len(req.docs) :
                  IF req.uriOnly \/ failAt = 0
                  THEN /\ loads' = IF req.uriOnly THEN loads ELSE loads + Len(req.docs)
                       /\ units' = extract_units(req.docs, Mode)
                       /\ call' = "units"
                       /\ resp' = resp
                  ELSE /\ loads' = loads + failAt
                       /\ call' = "raised"
                       /\ resp' = Raised(LoadFailed)
                       /\ units' = units
    /\ UNCHANGED <<stubCalls, arg, ret, req, sem, provCalls, providerState, metas,
               environ, events, bucket, topic>>

\* extract_grouped: entry checks
GroupedBegin ==
    /\ req.entry = "extract_grouped"
    /\ call = "start"
    /\ LET e == extract_grouped_guard(req.groups)
       IN  IF e # NoErr
           THEN /\ call' = "raised"
                /\ resp' = Raised(e)
                /\ units' = units
           ELSE /\ units' = grouped_units(req.groups)
                /\ call' = "units"
                /\ resp' = resp
    /\ UNCHANGED <<stubCalls, arg, ret, req, sem, provCalls, loads,
               providerState, metas,
               environ, events, bucket, topic>>

EngineMove(u, f) ==
    /\ units' = [units EXCEPT ![u] = f]
    /\ resp' = engine_keep(f)
    /\ call' = IF f.pc = "err" THEN "raised" ELSE call

\* the next unit in order: (extract_grouped: its documents are loaded,) then
\* _single_call makes its initial provider call
EngineFirstCall(u) ==
    /\ req.entry \in {"extract", "extract_grouped"}
    /\ call = "units"
    /\ units[u].pc = "waiting"
    /\ \A v \in 1..(u - 1) : units[v].pc = "ok"
    /\ LET loading == req.entry = "extract_grouped" /\ ~req.uriOnly
       IN \E failAt \in 0..Len(units[u].docs) :
            IF loading /\ failAt > 0
            THEN /\ loads' = loads + failAt
                 /\ EngineMove(u, raise_from(units[u], LoadFailed))
                 /\ UNCHANGED provCalls
            ELSE /\ loads' = IF loading THEN loads + Len(units[u].docs) ELSE loads
                 /\ provCalls' = provCalls + 1
                 /\ \E o \in Outcomes : EngineMove(u, after_first(units[u], o))
    /\ UNCHANGED <<stubCalls, arg, ret, req, sem, providerState, metas,
               environ, events, bucket, topic>>

\* one repair call of the running unit
EngineRepairCall(u) ==
    /\ req.entry \in {"extract", "extract_grouped"}
    /\ call = "units"
    /\ units[u].pc = "repair"
    /\ provCalls' = provCalls + 1
    /\ \E o \in Outcomes : EngineMove(u, after_repair(units[u], o))
    /\ UNCHANGED <<stubCalls, arg, ret, req, sem, loads, providerState, metas,
               environ, events, bucket, topic>>

\* the shape extract / extract_grouped returns
return_kind(mode) ==
    IF mode = "per_file" THEN "list"
    ELSE IF mode = "aggregate" THEN "single"
    ELSE IF mode = "both" THEN "multi"
    ELSE "grouped"

EngineReturn ==
    /\ req.entry \in {"extract", "extract_grouped"}
    /\ call = "units"
    /\ AllOk(units)
    /\ call' = "returned"
    /\ resp' = [resp EXCEPT !.kind = return_kind(Mode)]
    /\ UNCHANGED <<stubCalls, arg, ret, req, units, sem, provCalls, loads,
               providerState, metas,
               environ, events, bucket, topic>>

(***************************************************************************)
(* POST /extract: units run concurrently under asyncio.Semaphore.          *)
(***************************************************************************)
\* HTTPException(status_code=404, detail="Profile not found")
ProfileNotFound ==
    Response("error", <<>>, NoResult, <<>>, Err("HTTPException", "Profile not found"), 404)

\* the handler up to gather: the profile is loaded, the work items are built
HttpBegin ==
    /\ req.entry = "http"
    /\ call = "start"
    /\ IF ~req.profile.present
       THEN /\ resp' = ProfileNotFound
            /\ call' = "responded"
            /\ UNCHANGED <<units, sem>>
       ELSE /\ units' = http_items(req)
            /\ sem' = max_workers(req)
            /\ call' = "units"
            /\ UNCHANGED resp
    /\ UNCHANGED <<stubCalls, arg, ret, req, provCalls, loads, providerState, metas,
               environ, events, bucket, topic>>

\* `async with sem`: tasks enter in the order gather created them
HttpAcquire(u) ==
    /\ req.entry = "http"
    /\ call = "units"
    /\ units[u].pc = "waiting"
    /\ \A v \in 1..(u - 1) : units[v].pc # "waiting"
    /\ sem > 0
    /\ sem' = sem - 1
    /\ units' = [units EXCEPT ![u].pc = "ready"]
    /\ UNCHANGED <<stubCalls, arg, ret, req, call, provCalls, loads, resp,
               providerState, metas,
               environ, events, bucket, topic>>

\* variant: the slot is given back as soon as the initial call is over
HttpMove_release_early(u, f) ==
    /\ units' = [units EXCEPT ![u] = f]
    /\ sem' = IF units[u].pc = "ready" THEN sem + 1 ELSE sem

\* variant: the slot is given back only by a unit that succeeded
HttpMove_keep_on_failure(u, f) ==
    /\ units' = [units EXCEPT ![u] = f]
    /\ sem' = IF f.pc = "ok" THEN sem + 1 ELSE sem

\* a unit that ends leaves `async with sem`
HttpMove(u, f) ==
    /\ units' = [units EXCEPT ![u] = f]
    /\ sem' = IF Finished(f) THEN sem + 1 ELSE sem

\* _call: df_extract checks the unit's documents, then _single_call makes
\* its initial provider call (attachment_strategy "uri": nothing is loaded)
HttpFirstCall(u) ==
    /\ req.entry = "http"
    /\ call = "units"
    /\ units[u].pc = "ready"
    /\ LET e == extract_guard(units[u].docs)
       IN  IF e # NoErr
           THEN /\ HttpMove(u, raise_from(units[u], e))
                /\ UNCHANGED provCalls
           ELSE /\ provCalls' = provCalls + 1
                /\ \E o \in Outcomes : HttpMove(u, after_first(units[u], o))
    /\ UNCHANGED <<stubCalls, arg, ret, req, call, loads, resp, providerState, metas,
               environ, events, bucket, topic>>

HttpRepairCall(u) ==
    /\ req.entry = "http"
    /\ call = "units"
    /\ units[u].pc = "repair"
    /\ provCalls' = provCalls + 1
    /\ \E o \in Outcomes : HttpMove(u, after_repair(units[u], o))
    /\ UNCHANGED <<stubCalls, arg, ret, req, call, loads, resp, providerState, metas,
               environ, events, bucket, topic>>

\* HTTPException(status_code=502, detail=err)
BadGateway(msg) == Response("error", <<>>, NoResult, <<>>, Err("HTTPException", msg), 502)

\* `res_map = {item_id: (df_res, err) for ...}`: a later item replaces an
\* earlier one with the same id
res_map(us, id) == us[SetMax({u \in 1..Len(us) : us[u].gid = id})]

\* variant: results are read back to front
per_file_obj_reversed(files, us, k) ==
    Result(us[Len(us) + 1 - k].payload, <<files[k]>>, "per_file")

\* the per_file response entry of index k
per_file_obj(files, us, k) == Result(us[k].payload, <<files[k]>>, "per_file")

http_response(r, us) ==
    IF r.mode = "single"
    THEN IF us[1].pc = "err" THEN BadGateway(us[1].err.msg)
         ELSE Response("single", <<>>, Result(us[1].payload, r.docs, "aggregate"),
                       <<>>, NoErr, 200)
    ELSE IF r.mode = "per_file"
    THEN LET bad == {k \in 1..Len(us) : us[k].pc = "err"}
         IN  IF bad # {} THEN BadGateway(us[SetMin(bad)].err.msg)
             ELSE Response("list", [k \in 1..Len(us) |-> per_file_obj(r.docs, us, k)],
                           NoResult, <<>>, NoErr, 200)
    ELSE LET bad == {k \in 1..Len(r.groups) : res_map(us, r.groups[k].id).pc = "err"}
         IN  IF bad # {}
             THEN BadGateway(res_map(us, r.groups[SetMin(bad)].id).err.msg)
             ELSE Response("grouped", <<>>, NoResult,
                           [k \in 1..Len(r.groups) |->
                              GroupEntry(r.groups[k].id,
                                         Result(res_map(us, r.groups[k].id).payload,
                                                r.groups[k].docs, "grouped"))],
                           NoErr, 200)

\* variant: gather gives up as soon as one task has failed
gather_done_fail_fast(us) ==
    \/ \E u \in 1..Len(us) : us[u].pc = "err"
    \/ \A u \in 1..Len(us) : Finished(us[u])

\* `await asyncio.gather(*[_process(...) ...])`: _process catches every
\* exception of its unit, so gather returns when every task has returned
gather_done(us) == \A u \in 1..Len(us) : Finished(us[u])

\* gather returned: the response is shaped from the results in item order
HttpRespond ==
    /\ req.entry = "http"
    /\ call = "units"
    /\ gather_done(units)
    /\ resp' = http_response(req, units)
    /\ call' = "responded"
    /\ UNCHANGED <<stubCalls, arg, ret, req, units, sem, provCalls, loads,
               providerState, metas,
               environ, events, bucket, topic>>

Next ==
    \/ ExtractBegin
    \/ GroupedBegin
    \/ \E u \in 1..Len(units) : EngineFirstCall(u)
    \/ \E u \in 1..Len(units) : EngineRepairCall(u)
    \/ EngineReturn
    \/ HttpBegin
    \/ \E u \in 1..Len(units) : HttpAcquire(u)
    \/ \E u \in 1..Len(units) : HttpFirstCall(u)
    \/ \E u \in 1..Len(units) : HttpRepairCall(u)
    \/ HttpRespond

Spec == Init /\ [][Next]_vars

(***************************************************************************)
(* POST /extract on its own, with the scheduling the handler runs under:   *)
(* the event loop resumes a task that can go on (the handler itself, a     *)
(* task waiting for a free slot), and an executor thread's provider call   *)
(* comes back with a result or an error.                                   *)
(***************************************************************************)
\* the requests followed under fairness: single and per_file payloads with
\* every repair setting, grouped payloads (whose items the same _process
\* runs) with repair switched off
FairRequests == {r \in HttpRequests : r.mode # "grouped" \/ ~r.repair.enabled}

InitHttp ==
    /\ req \in FairRequests
    /\ call = "start"
    /\ units = <<>>
    /\ sem = 0
    /\ provCalls = 0
    /\ loads = 0
    /\ resp = NoResponse
    /\ arg = NoArg
    /\ ret = NoRet
    /\ stubCalls = <<>>
    /\ providerState = NewProvider
    /\ metas = <<>>
    /\ NoEvents

NextHttp ==
    \/ HttpBegin
    \/ \E u \in 1..Len(units) : HttpAcquire(u)
    \/ \E u \in 1..Len(units) : HttpFirstCall(u)
    \/ \E u \in 1..Len(units) : HttpRepairCall(u)
    \/ HttpRespond

HttpFairness ==
    /\ WF_vars(HttpBegin)
    /\ WF_vars(\E u \in 1..Len(units) : HttpAcquire(u))
    /\ WF_vars(\E u \in 1..Len(units) : HttpFirstCall(u))
    /\ WF_vars(\E u \in 1..Len(units) : HttpRepairCall(u))
    /\ WF_vars(HttpRespond)

SpecHttp == InitHttp /\ [][NextHttp]_vars /\ HttpFairness

(***************************************************************************)
(* Helper functions, one call at a time.                                   *)
(***************************************************************************)
\* the state of the orchestration while a helper function is exercised
Idle ==
    /\ req = Request("none", None, <<>>, <<>>, 0, FALSE, FALSE, NoProfile,
                     NoRepairCfg, NoWorkers, NoCfg)
    /\ call = "start"
    /\ units = <<>>
    /\ sem = 0
    /\ provCalls = 0
    /\ loads = 0
    /\ resp = NoResponse
    /\ stubCalls = <<>>
    /\ providerState = NewProvider
    /\ metas = <<>>
    /\ NoEvents

\* payload.workers and the configured worker counts, non-positive included
WorkerArgs == {NoWorkers} \cup {[given |-> TRUE, v |-> w] : w \in (-1)..3}
CfgArgs == [default_workers : {0, 2}, max_workers : {-1, 0, 1, 2, 3}]

\* accepted payloads whose worker count is computed
WorkerCountArgs ==
    { Call("max_workers",
           Request("http", mode, DocSeq(1, n), <<>>, 0, FALSE, TRUE, Profile(None),
                   NoRepairCfg, w, c)) :
        mode \in {"single", "per_file"}, n \in 1..(MAX_DOCS_PER_EXTRACTION + 1),
        w \in WorkerArgs, c \in CfgArgs }

(***************************************************************************)
(* ProviderOptions (core/providers/base.py) and _merge_options.  Optional  *)
(* values are strings, None standing for Python None.                      *)
(***************************************************************************)
ProviderOptions(model_name, temperature, top_p, max_output_tokens, strategy) ==
    [present |-> TRUE, model_name |-> model_name, temperature |-> temperature,
     top_p |-> top_p, max_output_tokens |-> max_output_tokens,
     attachment_strategy |-> strategy]

\* no ProviderOptions object (Python None)
NoOptions == [ProviderOptions(None, None, None, None, None) EXCEPT !.present = FALSE]

\* `self.x if override.x is None else override.x`
IfNone(x, y) == IF x = None THEN y ELSE x

\* variant: the base value is kept whenever it is set
merged_base_wins(self, override) ==
    IF ~override.present THEN self
    ELSE ProviderOptions(Or(self.model_name, override.model_name),
                         IfNone(self.temperature, override.temperature),
                         IfNone(self.top_p, override.top_p),
                         IfNone(self.max_output_tokens, override.max_output_tokens),
                         Or(self.attachment_strategy, override.attachment_strategy))

\* ProviderOptions.merged
merged(self, override) ==
    IF ~override.present THEN self
    ELSE ProviderOptions(Or(override.model_name, self.model_name),
                         IfNone(override.temperature, self.temperature),
                         IfNone(override.top_p, self.top_p),
                         IfNone(override.max_output_tokens, self.max_output_tokens),
                         Or(override.attachment_strategy, self.attachment_strategy))

\* config.DEFAULT_MODEL_NAME, DEFAULT_TEMPERATURE, DEFAULT_MAX_OUTPUT_TOKENS
DEFAULT_MODEL_NAME == "default-model"
DEFAULT_TEMPERATURE == "default-temperature"
DEFAULT_MAX_OUTPUT_TOKENS == "default-max-output-tokens"

\* the `base` _merge_options starts from
DefaultOptions ==
    ProviderOptions(DEFAULT_MODEL_NAME, DEFAULT_TEMPERATURE, None,
                    DEFAULT_MAX_OUTPUT_TOKENS, None)

\* _merge_options: `profile_options` is profile.provider_options, NoOptions
\* when there is no profile or the profile has none
merge_options(profile_options, options) ==
    merged(merged(DefaultOptions, profile_options), options)

\* the ProviderOptions objects written by `who`: every field unset, or set
\* to a value of its own; the two string fields possibly empty
OptionsOf(who) ==
    { ProviderOptions(m, t, p, k, a) :
        m \in {None, "", who \o "-model"}, t \in {None, who \o "-temperature"},
        p \in {None, who \o "-top_p"}, k \in {None, who \o "-max-tokens"},
        a \in {None, "", who \o "-strategy"} }

MergedArgs ==
    { Call("merged", [self |-> b, override |-> o]) :
        b \in OptionsOf("base"), o \in OptionsOf("override") \cup {NoOptions} }

MergeOptionsArgs ==
    { Call("merge_options", [profile_options |-> p, options |-> o]) :
        p \in OptionsOf("profile") \cup {NoOptions},
        o \in OptionsOf("caller") \cup {NoOptions} }

ApplyMerged ==
    /\ arg.fn = "merged"
    /\ ret.fn = "none"
    /\ ret' = Return("merged", merged(arg.in.self, arg.in.override))
    /\ UNCHANGED <<req, call, units, sem, provCalls, loads, resp, arg, stubCalls,
               providerState, metas,
               environ, events, bucket, topic>>

ApplyMergeOptions ==
    /\ arg.fn = "merge_options"
    /\ ret.fn = "none"
    /\ ret' = Return("merge_options",
                     merge_options(arg.in.profile_options, arg.in.options))
    /\ UNCHANGED <<req, call, units, sem, provCalls, loads, resp, arg, stubCalls,
               providerState, metas,
               environ, events, bucket, topic>>

(***************************************************************************)
(* _build_prompt and the meta of _single_call (core/extraction/engine.py). *)
(***************************************************************************)
\* an ExtractionProfile as these two functions read it
ExtractionProfile(name, mode, prompt, description, system_instruction) ==
    [present |-> TRUE, name |-> name, mode |-> mode, prompt |-> prompt,
     description |-> description, system_instruction |-> system_instruction]

\* profile=None
NoExtractionProfile ==
    [ExtractionProfile(None, None, None, None, None) EXCEPT !.present = FALSE]

DefaultSystemInstruction ==
    "Return JSON that matches the provided schema. Use null for missing values. Do not add extra text."
DescribePrompt == "Provide a concise description of the document content."
ExtractAllPrompt == "Extract all salient structured data you can find."
ExtractPrompt == "Extract the requested structured fields. Use null for missing values."
MultipleDocumentsLine == "Multiple documents provided."

\* variant: the multiple-documents line is always appended
build_prompt_always_multi(profile, aggregate) ==
    [system_instruction |->
       IF profile.present /\ Truthy(profile.system_instruction)
       THEN profile.system_instruction ELSE DefaultSystemInstruction,
     lines |->
       << IF profile.present /\ Truthy(profile.prompt) THEN profile.prompt
          ELSE IF profile.present /\ Truthy(profile.description)
          THEN profile.description
          ELSE IF profile.present /\ profile.mode = "describe" THEN DescribePrompt
          ELSE IF profile.present /\ profile.name = "extract_all"
          THEN ExtractAllPrompt
          ELSE ExtractPrompt >>
       \o <<MultipleDocumentsLine>>]

\* _build_prompt; `lines` are the parts joined by a blank line into the prompt
build_prompt(profile, aggregate) ==
    [system_instruction |->
       IF profile.present /\ Truthy(profile.system_instruction)
       THEN profile.system_instruction ELSE DefaultSystemInstruction,
     lines |->
       << IF profile.present /\ Truthy(profile.prompt) THEN profile.prompt
          ELSE IF profile.present /\ Truthy(profile.description)
          THEN profile.description
          ELSE IF profile.present /\ profile.mode = "describe" THEN DescribePrompt
          ELSE IF profile.present /\ profile.name = "extract_all"
          THEN ExtractAllPrompt
          ELSE ExtractPrompt >>
       \o (IF aggregate THEN <<MultipleDocumentsLine>> ELSE <<>>)]

\* variant: the requested model name is preferred to the reported one
single_call_meta_requested_first(provider, options, doc_names, mode, profile) ==
    [model |-> Or(IF options.present THEN options.model_name ELSE None,
                  provider.last_model),
     usage |-> provider.last_usage,
     docs |-> doc_names,
     mode |-> mode,
     profile |-> IF profile.present THEN profile.name ELSE None]

\* the `meta` dict of _single_call; `provider` carries last_model and
\* last_usage as they are when the call chain is over
single_call_meta(provider, options, doc_names, mode, profile) ==
    [model |-> Or(provider.last_model,
                  IF options.present THEN options.model_name ELSE None),
     usage |-> provider.last_usage,
     docs |-> doc_names,
     mode |-> mode,
     profile |-> IF profile.present THEN profile.name ELSE None]

\* the profiles the two functions are called with
ProfileValues ==
    { ExtractionProfile(n, m, p, d, si) :
        n \in {"extract_all", "invoices"}, m \in {"extract", "describe"},
        p \in {None, "", "profile prompt"}, d \in {None, "", "profile description"},
        si \in {None, "", "profile instruction"} }
    \cup {NoExtractionProfile}

BuildPromptArgs ==
    { Call("build_prompt", [profile |-> p, aggregate |-> a]) :
        p \in ProfileValues, a \in BOOLEAN }

\* provider.last_model / last_usage: absent or None, empty, or reported
ProviderStates == [last_model : {None, "", "reported-model"}, last_usage : {None, "usage"}]

MetaArgs ==
    { Call("meta", [provider |-> pr, options |-> o, doc_names |-> dn, mode |-> m,
                    profile |-> p]) :
        pr \in ProviderStates,
        o \in {NoOptions, DefaultOptions,
               ProviderOptions(None, None, None, None, None),
               ProviderOptions("requested-model", None, None, None, "uri")},
        dn \in {DocSeq(1, 1), DocSeq(1, 2), <<2, 1>>},
        m \in {"per_file", "aggregate", "grouped"},
        p \in {NoExtractionProfile,
               ExtractionProfile("invoices", "extract", None, None, None)} }

ApplyBuildPrompt ==
    /\ arg.fn = "build_prompt"
    /\ ret.fn = "none"
    /\ ret' = Return("build_prompt", build_prompt(arg.in.profile, arg.in.aggregate))
    /\ UNCHANGED <<req, call, units, sem, provCalls, loads, resp, arg, stubCalls,
               providerState, metas,
               environ, events, bucket, topic>>

ApplyMeta ==
    /\ arg.fn = "meta"
    /\ ret.fn = "none"
    /\ ret' = Return("meta", single_call_meta(arg.in.provider, arg.in.options,
                                              arg.in.doc_names, arg.in.mode,
                                              arg.in.profile))
    /\ UNCHANGED <<req, call, units, sem, provCalls, loads, resp, arg, stubCalls,
               providerState, metas,
               environ, events, bucket, topic>>

(***************************************************************************)
(* validate and normalize over schemas and values.                         *)
(***************************************************************************)
\* longest record-set array among the values
MaxRecs == 2

\* an array entry: an object with or without qty, or a value that is no object
Recs == {Rec(TRUE, q) : q \in QtyValues} \cup {Rec(FALSE, "ABSENT")}
RecSeqs == UNION {[1..n -> Recs] : n \in 0..MaxRecs}

\* the JSON values: objects with any combination of keys, and a non-object
JsonValues ==
    { Json(TRUE, t, "array", rs, x) :
        t \in TitleValues, rs \in RecSeqs, x \in {"ABSENT", "x"} }
    \cup
    { Json(TRUE, t, st, <<>>, x) :
        t \in TitleValues, st \in {"absent", "scalar"}, x \in {"ABSENT", "x"} }
    \cup {NoOut}

NormalizeArgs ==
    { Call("normalize", [schema |-> S, value |-> v]) : S \in Schemas, v \in JsonValues }

\* `validate_output(schema, data); payload = normalize_output(schema, data)`
ApplyNormalize ==
    /\ arg.fn = "normalize"
    /\ ret.fn = "none"
    /\ LET msg == validate(arg.in.schema, arg.in.value)
           once == IF msg = "" THEN normalize(arg.in.schema, arg.in.value) ELSE NoOut
       IN  ret' = Return("normalize",
                         [error |-> msg, once |-> once, twice |-> NoOut, applied |-> 1])
    /\ UNCHANGED <<req, call, units, sem, provCalls, loads, resp, arg, stubCalls,
               providerState, metas,
               environ, events, bucket, topic>>

\* the normalized value is normalized once more
ApplyNormalizeAgain ==
    /\ ret.fn = "normalize"
    /\ ret.out.error = ""
    /\ ret.out.applied = 1
    /\ ret' = [ret EXCEPT !.out.twice = normalize(arg.in.schema, ret.out.once),
                          !.out.applied = 2]
    /\ UNCHANGED <<req, call, units, sem, provCalls, loads, resp, arg, stubCalls,
               providerState, metas,
               environ, events, bucket, topic>>

NormalizeObjectArgs ==
    { Call("normalize_object", [schema |-> S, value |-> v]) :
        S \in Schemas, v \in {w \in JsonValues : w.obj} }

\* normalize_output(schema, value) on an object, whether or not it passes
\* validation
ApplyNormalizeObject ==
    /\ arg.fn = "normalize_object"
    /\ ret.fn = "none"
    /\ ret' = Return("normalize_object", normalize(arg.in.schema, arg.in.value))
    /\ UNCHANGED <<req, call, units, sem, provCalls, loads, resp, arg, stubCalls,
               providerState, metas,
               environ, events, bucket, topic>>

ValidateArgs ==
    { Call("validate", [schema |-> S, value |-> v]) : S \in Schemas, v \in JsonValues }

\* validate_output(schema, value): returns, or raises SchemaValidationError
ApplyValidate ==
    /\ arg.fn = "validate"
    /\ ret.fn = "none"
    /\ LET msg == validate(arg.in.schema, arg.in.value)
       IN  ret' = Return("validate",
                         IF msg = "" THEN NoErr ELSE SchemaValidationError(msg))
    /\ UNCHANGED <<req, call, units, sem, provCalls, loads, resp, arg, stubCalls,
               providerState, metas,
               environ, events, bucket, topic>>

(***************************************************************************)
(* service/main.py: the responses of extract_data and events_entrypoint.   *)
(* A response is a status and a JSON body; of the body the model keeps its *)
(* keys, whether data is null, and the error objects.                      *)
(***************************************************************************)
HttpResponse(status, keys, data, errors) ==
    [status |-> status, keys |-> keys, data |-> data, errors |-> errors]

EnvelopeKeys == {"data", "meta", "errors"}

ErrorObj(code, message, field, details) ==
    [code |-> code, message |-> message, field |-> field, details |-> details]

error_response(http_status, code, message, field, details) ==
    HttpResponse(http_status, EnvelopeKeys, "null",
                 <<ErrorObj(code, message, field, details)>>)

bad_request(message, code, field, details) ==
    error_response(400, code, message, field, details)

too_large(message) == error_response(413, "file_too_large", message, None, None)

\* the second definition of _server_error, the one the module name is bound
\* to: (message, trace_id) -> the body {ok, model, data, usage, trace_id, error}
server_error(message) ==
    HttpResponse(500, {"ok", "model", "data", "usage", "trace_id", "error"},
                 "null", <<>>)

\* a call `_server_error(message, trace_id, code=...)`: the bound definition
\* takes no `code`, the TypeError leaves the view and the framework answers
\* 500 without a JSON body
server_error_with_code(message, code) == HttpResponse(500, {}, "ABSENT", <<>>)

\* `("", 204, headers)`
NoContent == HttpResponse(204, {}, "ABSENT", <<>>)

extract_data(r) ==
    IF r.method = "OPTIONS" THEN NoContent
    ELSE IF r.method # "POST"
         THEN bad_request("Only POST is allowed", "method_not_allowed", None, None)
    ELSE IF ~r.multipart /\ ~r.json_ok
         THEN bad_request("Invalid JSON body", "invalid_json", None, None)
    ELSE IF ~r.schema
         THEN bad_request("Missing 'schema'", "missing_field", "schema", None)
    ELSE IF r.multipart /\ r.oversize
         THEN too_large("Payload too large for demo")
    ELSE IF ~r.mime_ok
         THEN bad_request("File type is not supported", "unsupported_file_type",
                          "files[idx]", "details")
    ELSE IF ~r.model_ok
         THEN server_error_with_code("Model call failed", "model_error")
    ELSE HttpResponse(200, EnvelopeKeys, "value", <<>>)

\* the keys of the object _handle_extractions_request returns
HandlerResultKeys ==
    {"ok", "event", "trace_id", "request_id", "published", "publish_result",
     "ready", "warnings", "result_uri", "already_exists"}

events_entrypoint(r) ==
    IF r.method = "OPTIONS" THEN NoContent
    ELSE IF r.method # "POST"
         THEN bad_request("Only POST is allowed", "bad_request", None, None)
    ELSE IF ~r.json_ok
         THEN bad_request("Invalid JSON body", "bad_request", None, None)
    ELSE IF ~r.decode_ok
         THEN bad_request("Transport decode error", "bad_request", None, None)
    ELSE IF ~r.envelope_ok
         THEN bad_request("Envelope validation error", "bad_request", None, None)
    ELSE IF ~r.handler_known
         THEN bad_request("No handler for event", "bad_request", None, None)
    ELSE IF ~r.handler_ok THEN server_error("Handler error")
    ELSE HttpResponse(200, HandlerResultKeys, "ABSENT", <<>>)

Methods == {"OPTIONS", "POST", "GET"}

ExtractDataArgs ==
    { Call("extract_data", r) :
        r \in [method : Methods, multipart : BOOLEAN, json_ok : BOOLEAN,
               schema : BOOLEAN, oversize : BOOLEAN, mime_ok : BOOLEAN,
               model_ok : BOOLEAN] }

EventsArgs ==
    { Call("events_entrypoint", r) :
        r \in [method : Methods, json_ok : BOOLEAN, decode_ok : BOOLEAN,
               envelope_ok : BOOLEAN, handler_known : BOOLEAN,
               handler_ok : BOOLEAN] }

ApplyExtractData ==
    /\ arg.fn = "extract_data"
    /\ ret.fn = "none"
    /\ ret' = Return("extract_data", extract_data(arg.in))
    /\ UNCHANGED <<req, call, units, sem, provCalls, loads, resp, arg, stubCalls,
               providerState, metas,
               environ, events, bucket, topic>>

ApplyEventsEntrypoint ==
    /\ arg.fn = "events_entrypoint"
    /\ ret.fn = "none"
    /\ ret' = Return("events_entrypoint", events_entrypoint(arg.in))
    /\ UNCHANGED <<req, call, units, sem, provCalls, loads, resp, arg, stubCalls,
               providerState, metas,
               environ, events, bucket, topic>>

(***************************************************************************)
(* The loading loop of extract / extract_grouped: what each document       *)
(* becomes as an attachment.                                               *)
(***************************************************************************)
\* most documents in a loading loop
MaxSources == 2

SourceKinds == {"GcsSource", "HttpSource", "FileSource", "RawTextSource"}
SourceSeqs == UNION {[1..n -> SourceKinds] : n \in 1..MaxSources}

\* `(eff_options.attachment_strategy if eff_options else None) or "bytes"`
attach_strategy(eff_options) ==
    Or(IF eff_options.present THEN eff_options.attachment_strategy ELSE None, "bytes")

\* variant: every document is passed by reference under the uri strategy
passes_uri_any_source(strategy, kind) == strategy = "uri"

\* `attach_strategy == "uri" and isinstance(doc, (GcsSource, HttpSource))`
passes_uri(strategy, kind) ==
    strategy = "uri" /\ kind \in {"GcsSource", "HttpSource"}

\* doc.uri / doc.url, and the bytes load_content(doc) returns, of document k
UriOf(k) == [form |-> "uri", doc |-> k]
ContentOf(k) == [form |-> "bytes", doc |-> k]

\* the loop over docs: the attachments in document order, and the documents
\* load_content was called on, in call order
load_docs(eff_options, docs) ==
    LET strategy == attach_strategy(eff_options)
        byUri(k) == passes_uri(strategy, docs[k])
    IN  [attachments |->
           [k \in 1..Len(docs) |->
              [name |-> k, content |-> IF byUri(k) THEN UriOf(k) ELSE ContentOf(k)]],
         loaded |-> SelectSeq([k \in 1..Len(docs) |-> k], LAMBDA k : ~byUri(k))]

StrategyArgs == {None, "", "bytes", "uri"}

LoadDocsArgs ==
    { Call("load_docs", [options |-> o, docs |-> ds]) :
        o \in {NoOptions} \cup {ProviderOptions(None, None, None, None, st) :
                                  st \in StrategyArgs},
        ds \in SourceSeqs }

ApplyLoadDocs ==
    /\ arg.fn = "load_docs"
    /\ ret.fn = "none"
    /\ ret' = Return("load_docs", load_docs(arg.in.options, arg.in.docs))
    /\ UNCHANGED <<req, call, units, sem, provCalls, loads, resp, arg, stubCalls,
               providerState, metas,
               environ, events, bucket, topic>>

(***************************************************************************)
(* sdk/client.py: DocflowClient.__init__ and _execute_remote.              *)
(***************************************************************************)
\* most files in a client call
MaxFiles == 2

ConfigError(msg) == Err("ConfigError", msg)
RemoteServiceError == Err("RemoteServiceError", "Service error")

\* what a client call ends with: the error raised (NoErr when it returns),
\* the number of HTTP requests sent, and the payload of the request
ClientOutcome(error, requests, payload) ==
    [error |-> error, requests |-> requests, payload |-> payload]
NoPayload == [profile_path |-> None, mode |-> None]

\* __init__: `if self.mode == "remote" and not self.endpoint_url`
client_init(c) ==
    LET endpoint_url == Or(c.config_endpoint, c.endpoint_url)
    IN  IF c.mode = "remote" /\ ~Truthy(endpoint_url)
        THEN ClientOutcome(ConfigError("Remote mode requires endpoint_url"), 0, NoPayload)
        ELSE ClientOutcome(NoErr, 0, NoPayload)

\* `str.lower()` on the mode strings of the model
Lower(m) ==
    IF m = "Both" THEN "both" ELSE IF m = "GROUPED" THEN "grouped" ELSE m

\* variant: multi=both is handed to the service as it is
map_mode_passes_both(m) ==
    IF Lower(m) = "aggregate" THEN [mode |-> "single", err |-> NoErr]
    ELSE [mode |-> Lower(m), err |-> NoErr]

\* _map_mode: the service mode of a multi_mode, or the ConfigError it raises
map_mode(m) ==
    IF Lower(m) = "per_file" THEN [mode |-> "per_file", err |-> NoErr]
    ELSE IF Lower(m) = "aggregate" THEN [mode |-> "single", err |-> NoErr]
    ELSE IF Lower(m) = "both"
         THEN [mode |-> None,
               err |-> ConfigError("Remote mode does not support multi=both")]
    ELSE [mode |-> Lower(m), err |-> NoErr]

\* `service_mode.lower() if service_mode else _map_mode(multi_mode)`
client_resolved_mode(service_mode, multi_mode) ==
    IF Truthy(service_mode) THEN [mode |-> Lower(service_mode), err |-> NoErr]
    ELSE map_mode(multi_mode)

\* _validate_uri passes: the string starts with gs://, http:// or https://
valid_uri(f) == f.scheme \in {"gs://", "http://", "https://"}

\* `not groups`
NoGroupsGiven(groups) == ~groups.given \/ groups.list = <<>>

execute_remote(c) ==
    LET resolved == client_resolved_mode(c.service_mode, c.multi_mode)
        fail(msg) == ClientOutcome(ConfigError(msg), 0, NoPayload)
    IN  IF c.profile_name = None THEN fail("Remote mode requires a profile path")
        ELSE IF resolved.err # NoErr THEN ClientOutcome(resolved.err, 0, NoPayload)
        ELSE IF \E k \in 1..Len(c.files) : ~valid_uri(c.files[k])
             THEN fail("Remote mode requires gs:// or http(s):// URIs")
        ELSE IF resolved.mode # "grouped" /\ c.files = <<>>
             THEN fail("At least one file is required")
        ELSE IF resolved.mode = "grouped" /\ NoGroupsGiven(c.groups)
             THEN fail("Grouped mode requires --groups")
        ELSE ClientOutcome(IF c.service_ok THEN NoErr ELSE RemoteServiceError, 1,
                           [profile_path |-> c.profile_name, mode |-> resolved.mode])

ClientFiles == [scheme : {"gs://", "http://", "https://", ""}, path : {"a.pdf"}]
ClientFileSeqs == UNION {[1..n -> ClientFiles] : n \in 0..MaxFiles}

ClientInitArgs ==
    { Call("client_init", c) :
        c \in [mode : {"local", "remote"},
               config_endpoint : {None, "", "https://svc"},
               endpoint_url : {None, "", "https://svc"}] }

ExecuteRemoteArgs ==
    { Call("execute_remote", c) :
        c \in [profile_name : {None, "invoices/extract"},
               multi_mode : {"per_file", "aggregate", "both", "Both", "GROUPED"},
               service_mode : {None, "", "single", "grouped"},
               files : ClientFileSeqs,
               groups : {[given |-> FALSE, list |-> <<>>],
                         [given |-> TRUE, list |-> <<>>],
                         [given |-> TRUE, list |-> <<"g1">>]},
               service_ok : BOOLEAN] }

ApplyClientInit ==
    /\ arg.fn = "client_init"
    /\ ret.fn = "none"
    /\ ret' = Return("client_init", client_init(arg.in))
    /\ UNCHANGED <<req, call, units, sem, provCalls, loads, resp, arg, stubCalls,
               providerState, metas,
               environ, events, bucket, topic>>

ApplyExecuteRemote ==
    /\ arg.fn = "execute_remote"
    /\ ret.fn = "none"
    /\ ret' = Return("execute_remote", execute_remote(arg.in))
    /\ UNCHANGED <<req, call, units, sem, provCalls, loads, resp, arg, stubCalls,
               providerState, metas,
               environ, events, bucket, topic>>

(***************************************************************************)
(* _resolve_schema and what _single_call does with the schema it yields.   *)
(***************************************************************************)
\* the `schema` argument of extract / extract_grouped: None, a dict or an
\* InternalSchema; S is what the schema declares
SchemaArg(kind, S) == [kind |-> kind, S |-> S]
NoSchema == SchemaArg("none", Schema("undeclared", FALSE))

\* parse_schema: the InternalSchema of a schema given as a dict
parse_schema(d) == SchemaArg("internal", d.S)

\* an ExtractionProfile with its schema (NoSchema: profile.schema is None),
\* or no profile
SchemaProfile(schema) == [present |-> TRUE, schema |-> schema]
NoSchemaProfile == [present |-> FALSE, schema |-> NoSchema]

\* variant: an explicit schema wins over the profile's
resolve_schema_explicit_first(schema, profile) ==
    IF schema.kind = "dict" THEN parse_schema(schema)
    ELSE IF schema.kind = "internal" THEN schema
    ELSE IF profile.present THEN profile.schema
    ELSE NoSchema

\* _resolve_schema: the profile's schema when the profile has one, else the
\* explicit schema (a dict is parsed), else None
resolve_schema(schema, profile) ==
    IF profile.present /\ profile.schema # NoSchema THEN profile.schema
    ELSE IF schema.kind = "dict" THEN parse_schema(schema)
    ELSE IF schema.kind = "internal" THEN schema
    ELSE NoSchema

\* _single_call on the provider's output `data`: the schema handed to
\* generate_structured, the validation error ("" if none) and the payload
schema_use(internal_schema, data) ==
    LET msg == IF internal_schema = NoSchema THEN ""
               ELSE validate(internal_schema.S, data)
    IN  [call_schema |-> internal_schema,
         error |-> msg,
         payload |-> IF internal_schema = NoSchema THEN data
                     ELSE IF msg = "" THEN normalize(internal_schema.S, data)
                     ELSE NoOut]

\* extract / extract_grouped: `internal_schema = _resolve_schema(schema,
\* profile)` is the schema of every _single_call
extract_schema(a) == schema_use(resolve_schema(a.schema, a.profile), a.data)

ResolveSchemas == {Schema("required", TRUE), Schema("undeclared", FALSE)}

ResolveSchemaArgs ==
    { Call("resolve_schema", [entry |-> e, schema |-> sc, profile |-> pr, data |-> d]) :
        e \in {"extract", "extract_grouped"},
        sc \in {NoSchema} \cup {SchemaArg(k, S) : k \in {"dict", "internal"},
                                                  S \in ResolveSchemas},
        pr \in {NoSchemaProfile, SchemaProfile(NoSchema)}
               \cup {SchemaProfile(SchemaArg("internal", S)) : S \in ResolveSchemas},
        d \in ProviderOutputs }

ApplyResolveSchema ==
    /\ arg.fn = "resolve_schema"
    /\ ret.fn = "none"
    /\ ret' = Return("resolve_schema", extract_schema(arg.in))
    /\ UNCHANGED <<req, call, units, sem, provCalls, loads, resp, arg, stubCalls,
                   providerState, metas, environ, events, bucket, topic>>

\* the default of extract's repair_attempts parameter
ExtractDefaultRepairAttempts == 0

\* `payload["repair"]` of _execute_remote
repair_block(repair_attempts) ==
    [enabled |-> repair_attempts > 0, max_attempts |-> Max(1, repair_attempts)]

\* the repair iterations _single_call makes at most when called with n
repair_iterations(n) == IF RepairEnabled(n) THEN RepairBound(n) ELSE 0

\* run_profile -> _execute: the repair_attempts the engine's extract is
\* called with.  Local mode calls extract without the argument; remote mode
\* posts the repair block, from which the handler computes `attempts`
run_profile(c) ==
    LET n == IF c.mode = "local" THEN ExtractDefaultRepairAttempts
             ELSE http_attempts(repair_block(c.repair_attempts))
    IN  [repair_attempts |-> n, iterations |-> repair_iterations(n)]

RunProfileArgs ==
    { Call("run_profile", c) :
        c \in [mode : {"local", "remote"}, repair_attempts : 0..RepairMaxAttemptsLe] }

ApplyRunProfile ==
    /\ arg.fn = "run_profile"
    /\ ret.fn = "none"
    /\ ret' = Return("run_profile", run_profile(arg.in))
    /\ UNCHANGED <<req, call, units, sem, provCalls, loads, resp, arg, stubCalls,
                   providerState, metas, environ, events, bucket, topic>>

ApplyMaxWorkers ==
    /\ arg.fn = "max_workers"
    /\ ret.fn = "none"
    /\ ret' = Return("max_workers", max_workers(arg.in))
    /\ UNCHANGED <<req, call, units, sem, provCalls, loads, resp, arg, stubCalls,
               providerState, metas,
               environ, events, bucket, topic>>

FnArgs ==
    WorkerCountArgs \cup MergedArgs \cup MergeOptionsArgs \cup BuildPromptArgs
    \cup MetaArgs \cup NormalizeArgs \cup NormalizeObjectArgs \cup ValidateArgs
    \cup ExtractDataArgs \cup EventsArgs \cup LoadDocsArgs
    \cup ClientInitArgs \cup ExecuteRemoteArgs \cup RunProfileArgs
    \cup ResolveSchemaArgs

InitFn ==
    /\ Idle
    /\ arg \in FnArgs
    /\ ret = NoRet

NextFn ==
    \/ ApplyMaxWorkers
    \/ ApplyMerged
    \/ ApplyMergeOptions
    \/ ApplyBuildPrompt
    \/ ApplyMeta
    \/ ApplyNormalize
    \/ ApplyNormalizeAgain
    \/ ApplyNormalizeObject
    \/ ApplyValidate
    \/ ApplyExtractData
    \/ ApplyEventsEntrypoint
    \/ ApplyLoadDocs
    \/ ApplyClientInit
    \/ ApplyExecuteRemote
    \/ ApplyRunProfile
    \/ ApplyResolveSchema

SpecFn == InitFn /\ [][NextFn]_vars

(***************************************************************************)
(* _single_call on its own, with a provider stub that records every call   *)
(* it receives and answers with any output, or raises.                     *)
(***************************************************************************)
\* the internal_schema argument: None or the schema of the request
SchemaArgs == {None, "TargetSchema"}

SingleCallArgs ==
    { Call("single_call", a) :
        a \in [internal_schema : SchemaArgs,
               options : {NoOptions, ProviderOptions("m1", None, None, None, "uri")},
               system_instruction : {DefaultSystemInstruction, "profile instruction"},
               attachments : {DocSeq(1, n) : n \in 1..MAX_DOCS_PER_EXTRACTION},
               repair_attempts : (-1)..MaxRepair] }

\* what the stub answers: an output, an output that validation cannot
\* process, or ProviderError (NoOut)
StubOutcomes == Outcomes \cup {Unprocessable}

\* `schema=internal_schema, options=options, system_instruction=...` of the
\* initial call
initial_kwargs(a) ==
    [schema |-> a.internal_schema, options |-> a.options,
     system_instruction |-> a.system_instruction]

\* variant: the repair call falls back to the default system instruction
repair_kwargs_default_instruction(a) ==
    [schema |-> a.internal_schema, options |-> a.options,
     system_instruction |-> DefaultSystemInstruction]

\* the same keyword arguments of the repair call
repair_kwargs(a) ==
    [schema |-> a.internal_schema, options |-> a.options,
     system_instruction |-> a.system_instruction]

\* one generate_structured call as the stub sees it, and what it answered
StubCall(c, kwargs, out) ==
    [prompt |-> [repair |-> c.repair, error_msg |-> c.err, json |-> c.json],
     attachments |-> c.att, schema |-> kwargs.schema, options |-> kwargs.options,
     system_instruction |-> kwargs.system_instruction, out |-> out]

InitUnit ==
    /\ req = Request("none", None, <<>>, <<>>, 0, FALSE, FALSE, NoProfile,
                     NoRepairCfg, NoWorkers, NoCfg)
    /\ arg \in SingleCallArgs
    /\ call = "units"
    /\ units = <<Unit("", arg.in.attachments, "aggregate", arg.in.attachments)>>
    /\ sem = 0
    /\ provCalls = 0
    /\ loads = 0
    /\ resp = NoResponse
    /\ ret = NoRet
    /\ stubCalls = <<>>
    /\ providerState = NewProvider
    /\ metas = <<>>
    /\ NoEvents

\* the initial provider call and what follows it up to the repair loop
SingleCallFirst ==
    /\ arg.fn = "single_call"
    /\ units[1].pc = "waiting"
    /\ \E o \in StubOutcomes :
         LET f == IF o = NoOut THEN first_call_failed(units[1])
                  ELSE single_call(units[1], o, arg.in.internal_schema = None,
                                   arg.in.repair_attempts)
         IN  /\ units' = <<f>>
             /\ stubCalls' = Append(stubCalls,
                                    StubCall(f.lastCall, initial_kwargs(arg.in), o))
    /\ provCalls' = provCalls + 1
    /\ UNCHANGED <<req, call, sem, loads, resp, arg, ret, providerState, metas,
               environ, events, bucket, topic>>

\* one iteration of the repair loop
SingleCallRepair ==
    /\ arg.fn = "single_call"
    /\ units[1].pc = "repair"
    /\ \E o \in StubOutcomes :
         LET f == IF o = NoOut THEN repair_call_failed(units[1])
                  ELSE repair_iteration(units[1], o, arg.in.repair_attempts)
         IN  /\ units' = <<f>>
             /\ stubCalls' = Append(stubCalls,
                                    StubCall(f.lastCall, repair_kwargs(arg.in), o))
    /\ provCalls' = provCalls + 1
    /\ UNCHANGED <<req, call, sem, loads, resp, arg, ret, providerState, metas,
               environ, events, bucket, topic>>

NextUnit ==
    \/ SingleCallFirst
    \/ SingleCallRepair

SpecUnit == InitUnit /\ [][NextUnit]_vars

(***************************************************************************)
(* The units of one POST /extract request on the provider they share, at   *)
(* the grain of the provider's writes: generate_structured sets last_model *)
(* when it starts and last_usage when the model has answered, and          *)
(* _single_call reads both after validation, when it builds `meta`.  The   *)
(* units run in executor threads, so these steps of different units        *)
(* interleave.                                                             *)
(***************************************************************************)
\* `options` of the handler: model_name is payload.model or cfg.default_model
HttpOptions == ProviderOptions("requested-model", None, None, None, "uri")

\* `df_profile` of the handler
HttpProfile == ExtractionProfile("invoices", "extract", None, None, None)

\* `model_name = opts.model_name or config.DEFAULT_MODEL_NAME`
generate_model(options) ==
    Or(merged(DefaultOptions, options).model_name, DEFAULT_MODEL_NAME)

\* `self.last_model = model_name`, written by the call of unit u
generate_begin(p, u, options) ==
    [p EXCEPT !.last_model = generate_model(options), !.model_by = u]

\* `self.last_usage = usage`, the usage of call k of unit u
generate_end(p, u, k) == [p EXCEPT !.last_usage = [unit |-> u, call |-> k]]

\* variant: meta is built from what the unit's own call returned
call_meta_call_scoped(p, u, f) ==
    [meta |-> single_call_meta(generate_end(generate_begin(p, u, HttpOptions),
                                            u, f.ncalls),
                               HttpOptions, f.docs, f.label, HttpProfile),
     model_by |-> u]

\* the `meta` dict of unit u, read from the provider p as it is then
call_meta(p, u, f) ==
    [meta |-> single_call_meta(p, HttpOptions, f.docs, f.label, HttpProfile),
     model_by |-> p.model_by]

\* the requests whose units are followed at this grain, and what a provider
\* call does there: a valid output, an invalid one, or ProviderError
SharedRequests ==
    {r \in HttpRequests : r.mode \in {"single", "per_file"} /\ r.repair.max_attempts = 1}
SharedOutcomes == {ValidFull, BadMissingTitle, NoOut}

InitShared ==
    /\ req \in SharedRequests
    /\ call = "start"
    /\ units = <<>>
    /\ sem = 0
    /\ provCalls = 0
    /\ loads = 0
    /\ resp = NoResponse
    /\ arg = NoArg
    /\ ret = NoRet
    /\ stubCalls = <<>>
    /\ providerState = NewProvider
    /\ metas = <<>>
    /\ NoEvents

\* df_extract checks the unit's documents; generate_structured starts (the
\* initial call, or the next call of the repair loop)
GenerateBegin(u) ==
    /\ req.entry = "http"
    /\ call = "units"
    /\ units[u].pc \in {"ready", "repair"}
    /\ LET e == extract_guard(units[u].docs)
       IN  IF units[u].pc = "ready" /\ e # NoErr
           THEN /\ HttpMove(u, raise_from(units[u], e))
                /\ UNCHANGED providerState
           ELSE /\ units' = [units EXCEPT ![u].pc =
                               IF @ = "ready" THEN "calling" ELSE "recalling"]
                /\ providerState' = generate_begin(providerState, u, HttpOptions)
                /\ UNCHANGED sem
    /\ UNCHANGED <<req, call, provCalls, loads, resp, arg, ret, stubCalls, metas,
               environ, events, bucket, topic>>

\* generate_structured returns or raises, and _single_call validates what
\* it returned; a unit whose output is accepted has `meta` left to build
GenerateEnd(u) ==
    /\ req.entry = "http"
    /\ call = "units"
    /\ units[u].pc \in {"calling", "recalling"}
    /\ provCalls' = provCalls + 1
    /\ \E o \in SharedOutcomes :
         LET f == IF units[u].pc = "calling" THEN after_first(units[u], o)
                  ELSE after_repair(units[u], o)
         IN  /\ providerState' = IF o = NoOut THEN providerState
                                 ELSE generate_end(providerState, u, f.ncalls)
             /\ IF f.pc = "ok"
                THEN /\ units' = [units EXCEPT ![u] = [f EXCEPT !.pc = "returned"]]
                     /\ UNCHANGED sem
                ELSE HttpMove(u, f)
    /\ UNCHANGED <<req, call, loads, resp, arg, ret, stubCalls, metas,
               environ, events, bucket, topic>>

\* `meta = {...}` and the return of _single_call; the unit leaves
\* `async with sem`
ReadMeta(u) ==
    /\ req.entry = "http"
    /\ call = "units"
    /\ units[u].pc = "returned"
    /\ metas' = (u :> call_meta(providerState, u, units[u])) @@ metas
    /\ HttpMove(u, [units[u] EXCEPT !.pc = "ok"])
    /\ UNCHANGED <<req, call, provCalls, loads, resp, arg, ret, stubCalls,
                   providerState,
               environ, events, bucket, topic>>

NextShared ==
    \/ HttpBegin
    \/ \E u \in 1..Len(units) : HttpAcquire(u)
    \/ \E u \in 1..Len(units) : GenerateBegin(u)
    \/ \E u \in 1..Len(units) : GenerateEnd(u)
    \/ \E u \in 1..Len(units) : ReadMeta(u)
    \/ HttpRespond

SpecShared == InitShared /\ [][NextShared]_vars

(***************************************************************************)
(* service/main.py: POST /events/<event_name>.  Every request runs in a    *)
(* thread of its own; the requests share the result bucket and the output  *)
(* topic.  The steps of a request are the calls that leave the process:    *)
(* the model call, the create-only upload and the publish.                 *)
(***************************************************************************)
\* most event requests in flight together
MaxEvents == 2

\* the envelope decoded from the Pub/Sub push body.  payload is "null"
\* (absent or None), "scalar" (no object), "object" (an extraction payload)
\* or "no-schema" (an object whose schema is neither an object nor a gs://
\* reference)
Envelope(version, event, requestId, replyTo, payload) ==
    [version |-> version, event |-> event, requestId |-> requestId,
     replyTo |-> replyTo, payload |-> payload]

\* variant: the event of the envelope is not compared with the path
validate_envelope_any_event(envelope, event_name) ==
    IF envelope.version # "1" THEN "Envelope 'version' must be '1'"
    ELSE IF envelope.event = None \/ envelope.event = ""
    THEN "Envelope 'event' must be a non-empty string"
    ELSE IF envelope.payload = "null" THEN "Envelope 'payload' must not be empty"
    ELSE IF envelope.payload = "scalar"
    THEN "Envelope 'payload' must be an object if provided"
    ELSE ""

\* _validate_envelope: the message of the ValueError it raises, "" if none
\* (the envelope is an object and meta is absent)
validate_envelope(envelope, event_name) ==
    IF envelope.version # "1" THEN "Envelope 'version' must be '1'"
    ELSE IF envelope.event = None \/ envelope.event = ""
    THEN "Envelope 'event' must be a non-empty string"
    ELSE IF envelope.event # event_name
    THEN "Path event does not match envelope.event"
    ELSE IF envelope.payload = "null" THEN "Envelope 'payload' must not be empty"
    ELSE IF envelope.payload = "scalar"
    THEN "Envelope 'payload' must be an object if provided"
    ELSE ""

\* the keys of EVENT_HANDLERS
EVENT_HANDLERS == {"extractions.request"}

\* `envelope.get("requestId") or meta.get("messageKey") or str(uuid.uuid4())`
\* for request k (no messageKey: meta is absent)
request_id(envelope, k) ==
    IF Truthy(envelope.requestId) THEN envelope.requestId
    ELSE "uuid-" \o ToString(k)

\* result_path and result_uri of the handler
result_path(id) == "results/" \o id \o ".json"
result_uri(bucket_name, id) ==
    IF bucket_name # "" THEN "gs://" \o bucket_name \o "/" \o result_path(id) ELSE ""

\* the ready envelope; of its payload the model keeps resultUri
ReadyEnvelope(envelope, id, uri) ==
    [version |-> envelope.version, event |-> "extractions.ready", requestId |-> id,
     replyTo |-> envelope.replyTo, resultUri |-> uri]
NoReady == ReadyEnvelope(Envelope("1", None, None, None, "null"), "", "")

\* the object _handle_extractions_request returns
HandlerResult(id, published, ready, uri, already_exists) ==
    [request_id |-> id, published |-> published, ready |-> ready,
     result_uri |-> uri, already_exists |-> already_exists]
NoHandlerResult == HandlerResult("", FALSE, NoReady, "", FALSE)

NoHttpResponse == HttpResponse(0, {}, "ABSENT", <<>>)

\* a request POST /events/<event_name> carrying `envelope`.  invoked,
\* model_calls, writes, publishes and existed record what the request did
\* (existed: the result object was there when the upload was tried)
EventRequest(event_name, envelope) ==
    [pc |-> "received", event_name |-> event_name, envelope |-> envelope,
     invoked |-> FALSE, model_calls |-> 0, writes |-> 0, publishes |-> 0,
     existed |-> FALSE, created |-> FALSE, already_exists |-> FALSE,
     result |-> NoHandlerResult, response |-> NoHttpResponse]

\* the requests received: well-formed extraction requests with and without
\* a request id, and one request per way of being refused
EventRequests ==
    { EventRequest("extractions.request",
                   Envelope("1", "extractions.request", id, None, "object")) :
        id \in {"r1", None} }
    \cup
    { EventRequest("extractions.request",
                   Envelope(v, "extractions.request", "r1", None, "object")) :
        v \in {"2", None} }
    \cup
    { EventRequest("extractions.request", Envelope("1", ev, "r1", None, "object")) :
        ev \in {"", "other.event"} }
    \cup
    { EventRequest("other.event", Envelope("1", "other.event", "r1", None, "object")) }
    \cup
    { EventRequest("extractions.request",
                   Envelope("1", "extractions.request", "r1", None, pl)) :
        pl \in {"null", "scalar", "no-schema"} }

\* the object names of the bucket the requests can write
ResultPaths(evs) == {result_path(request_id(evs[k].envelope, k)) : k \in 1..Len(evs)}

\* the response of the entrypoint to a POST whose body decoded, by what
\* became of the envelope
entrypoint_response(envelope_ok, handler_known, handler_ok) ==
    events_entrypoint([method |-> "POST", json_ok |-> TRUE, decode_ok |-> TRUE,
                       envelope_ok |-> envelope_ok, handler_known |-> handler_known,
                       handler_ok |-> handler_ok])

InitEvents ==
    /\ req = Request("none", None, <<>>, <<>>, 0, FALSE, FALSE, NoProfile,
                     NoRepairCfg, NoWorkers, NoCfg)
    /\ call = "start"
    /\ units = <<>>
    /\ sem = 0
    /\ provCalls = 0
    /\ loads = 0
    /\ resp = NoResponse
    /\ arg = NoArg
    /\ ret = NoRet
    /\ stubCalls = <<>>
    /\ providerState = NewProvider
    /\ metas = <<>>
    /\ environ \in [BUCKET_NAME : {"", "bucket"}, OUTPUT_TOPIC : {"", "out"}]
    /\ \E n \in 1..MaxEvents : events \in [1..n -> EventRequests]
    /\ bucket = [p \in ResultPaths(events) |-> 0]
    /\ topic = <<>>

EventsUnchanged ==
    UNCHANGED <<req, call, units, sem, provCalls, loads, resp, arg, ret, stubCalls,
                providerState, metas, environ>>

\* events_entrypoint up to the model call: the envelope is validated, the
\* handler looked up and called, and the handler checks payload.files and
\* payload.schema
EventsEntrypoint(k) ==
    /\ events[k].pc = "received"
    /\ LET e == events[k]
           envelope_ok == validate_envelope(e.envelope, e.event_name) = ""
           handler_known == e.event_name \in EVENT_HANDLERS
       IN  events' = [events EXCEPT ![k] =
             IF ~envelope_ok \/ ~handler_known
             THEN [e EXCEPT !.pc = "done",
                            !.response = entrypoint_response(envelope_ok,
                                                             handler_known, FALSE)]
             ELSE IF e.envelope.payload = "no-schema"
             THEN [e EXCEPT !.pc = "done", !.invoked = TRUE,
                            !.response = entrypoint_response(TRUE, TRUE, FALSE)]
             ELSE [e EXCEPT !.pc = "extracting", !.invoked = TRUE]]
    /\ UNCHANGED <<bucket, topic>>
    /\ EventsUnchanged

\* _execute_extraction: the model call returns, or raises ("Extractor error")
ExecuteExtraction(k) ==
    /\ events[k].pc = "extracting"
    /\ \E ok \in BOOLEAN :
         events' = [events EXCEPT ![k] =
           IF ok THEN [@ EXCEPT !.pc = "persisting", !.model_calls = @ + 1]
           ELSE [@ EXCEPT !.pc = "done", !.model_calls = @ + 1,
                          !.response = entrypoint_response(TRUE, TRUE, FALSE)]]
    /\ UNCHANGED <<bucket, topic>>
    /\ EventsUnchanged

\* variant: the upload carries no precondition and replaces the object
gcs_write_json_overwrite(b, path, k, upload_ok) ==
    IF upload_ok THEN [bucket |-> [b EXCEPT ![path] = k], created |-> TRUE]
    ELSE [bucket |-> b, created |-> FALSE]

\* _gcs_write_json_create_only: upload_from_string(..., if_generation_match=0)
\* creates the object when there is none and the upload goes through
\* (upload_ok); every exception is answered (False, str(e)).  The object
\* holds the result of request k
gcs_write_json_create_only(b, path, k, upload_ok) ==
    IF b[path] = 0 /\ upload_ok
    THEN [bucket |-> [b EXCEPT ![path] = k], created |-> TRUE]
    ELSE [bucket |-> b, created |-> FALSE]

\* "Persist results with idempotency"
PersistResult(k) ==
    /\ events[k].pc = "persisting"
    /\ LET e == events[k]
           path == result_path(request_id(e.envelope, k))
       IN  IF environ.BUCKET_NAME = ""
           THEN /\ events' = [events EXCEPT ![k].pc = "publishing"]
                /\ UNCHANGED bucket
           ELSE \/ \E upload_ok \in BOOLEAN :
                     LET w == gcs_write_json_create_only(bucket, path, k, upload_ok)
                     IN  /\ bucket' = w.bucket
                         /\ events' = [events EXCEPT ![k] =
                              [e EXCEPT !.pc = "publishing", !.writes = @ + 1,
                                        !.existed = bucket[path] # 0,
                                        !.created = w.created,
                                        !.already_exists = ~w.created]]
                \* _gcs_client raises RuntimeError, outside the try of the
                \* upload: the handler fails
                \/ /\ events' = [events EXCEPT ![k] =
                         [e EXCEPT !.pc = "done",
                                   !.response = entrypoint_response(TRUE, TRUE, FALSE)]]
                   /\ UNCHANGED bucket
    /\ UNCHANGED topic
    /\ EventsUnchanged

\* the ready envelope is built and published to replyTo or OUTPUT_TOPIC,
\* and the handler returns
PublishReady(k) ==
    /\ events[k].pc = "publishing"
    /\ LET e == events[k]
           id == request_id(e.envelope, k)
           uri == result_uri(environ.BUCKET_NAME, id)
           ready == ReadyEnvelope(e.envelope, id, uri)
           publish_topic == Or(e.envelope.replyTo, environ.OUTPUT_TOPIC)
       IN  \E ok \in (IF Truthy(publish_topic) THEN BOOLEAN ELSE {FALSE}) :
             /\ topic' = IF ok THEN Append(topic, ready) ELSE topic
             /\ events' = [events EXCEPT ![k] =
                  [e EXCEPT !.pc = "done",
                            !.publishes = IF Truthy(publish_topic) THEN @ + 1 ELSE @,
                            !.result = HandlerResult(id, ok, ready, uri,
                                                     e.already_exists),
                            !.response = entrypoint_response(TRUE, TRUE, TRUE)]]
    /\ UNCHANGED bucket
    /\ EventsUnchanged

NextEvents ==
    \/ \E k \in 1..Len(events) : EventsEntrypoint(k)
    \/ \E k \in 1..Len(events) : ExecuteExtraction(k)
    \/ \E k \in 1..Len(events) : PersistResult(k)
    \/ \E k \in 1..Len(events) : PublishReady(k)

SpecEvents == InitEvents /\ [][NextEvents]_vars

TypeOK ==
    /\ call \in {"start", "units", "returned", "raised", "responded"}
    /\ sem \in 0..(MAX_DOCS_PER_EXTRACTION + 1 + MaxGroups)
    /\ provCalls \in Nat
    /\ loads \in Nat

(***************************************************************************)
(* Properties.                                                             *)
(***************************************************************************)
UnitIds == 1..Len(units)
Validated == ~req.schemaNull
IsValidationError(e) == e.type = "SchemaValidationError"
Invalid(v) == validate_output(v) # ""
EngineEntry == req.entry \in {"extract", "extract_grouped"}

\* C1: with repair_attempts = N >= 1 and a non-null schema, a unit whose
\* outputs have all failed validation keeps calling the provider until it has
\* made exactly 1 + N calls, then raises a validation error; no unit ever
\* makes more than 1 + N calls.
C1_RepairLoopBound ==
    \A u \in UnitIds :
      LET f == units[u] IN
      (Validated /\ Attempts >= 1) =>
        /\ f.ncalls <= 1 + Attempts
        /\ (f.pc = "repair" => f.ncalls = 1 + f.i /\ f.ncalls <= Attempts)
        /\ (f.pc = "err" /\ IsValidationError(f.err) => f.ncalls = 1 + Attempts)

C1_Witness ==
    \E u \in UnitIds :
      /\ Validated /\ Attempts = MaxRepair
      /\ units[u].pc = "err" /\ IsValidationError(units[u].err)
      /\ units[u].ncalls = 1 + MaxRepair
      /\ Invalid(units[u].data) /\ Invalid(units[u].last)

\* C2 (as claimed): when the repair attempts are exhausted, the error raised
\* is the validation error of the last repair attempt's output.
C2_LastErrorPropagated ==
    \A u \in UnitIds :
      LET f == units[u] IN
      (f.pc = "err" /\ IsValidationError(f.err) /\ f.ncalls > 1) =>
        f.err = SchemaValidationError(validate_output(f.last))

\* C2 (amended): when the repair attempts are exhausted, the error raised is
\* the validation error of the original (first) output, whatever the repair
\* attempts returned.
C2_OriginalErrorPropagated ==
    \A u \in UnitIds :
      LET f == units[u] IN
      (f.pc = "err" /\ IsValidationError(f.err) /\ f.ncalls > 1) =>
        /\ f.err = SchemaValidationError(validate_output(f.data))
        /\ (EngineEntry => call = "raised" /\ resp.err = f.err)

C2_Witness ==
    \E u \in UnitIds :
      /\ units[u].pc = "err" /\ IsValidationError(units[u].err)
      /\ units[u].ncalls = 1 + Attempts /\ Attempts >= 1
      /\ validate_output(units[u].last) # validate_output(units[u].data)
      /\ EngineEntry /\ call = "raised"

\* the output the most recent provider call of frame f returned
LatestOutput(f) == IF f.ncalls = 1 THEN f.data ELSE f.repaired

\* C3: with a non-null schema, the unit returns at the first output that
\* passes validation: if that is the k-th output, exactly k calls were made
\* (k <= 1 + N), every earlier output failed validation, the payload is
\* normalize(k-th output), and the unit makes no call afterwards.
C3_ReturnedAtFirstValid ==
    \A u \in UnitIds :
      LET f == units[u] IN
      (Validated /\ f.pc = "ok") =>
        /\ f.ncalls >= 1 /\ f.ncalls <= 1 + Max(0, Attempts)
        /\ ~Invalid(LatestOutput(f))
        /\ f.payload = normalize_output(LatestOutput(f))
        /\ (f.ncalls > 1 => Invalid(f.data) /\ Invalid(f.last) /\ f.ncalls = f.i + 2)

C3_StepAtFirstValid ==
    \A u \in UnitIds :
      /\ (Validated /\ units'[u].ncalls = units[u].ncalls + 1
            /\ ~units'[u].lastCall.raised /\ ~Invalid(LatestOutput(units'[u])))
         => units'[u].pc = "ok"
      /\ units[u].pc = "ok" => units'[u] = units[u]

C3_EarlyExit == []C3_ReturnedAtFirstValid /\ [][C3_StepAtFirstValid]_vars

C3_Witness ==
    \E u \in UnitIds :
      /\ Validated /\ Attempts = 2
      /\ units[u].pc = "ok" /\ units[u].ncalls = 2
      /\ units[u].payload # units[u].repaired
      /\ units[u].payload = normalize_output(units[u].repaired)

\* C4: with a non-null schema and repair_attempts <= 0 (negative included), a
\* unit whose output fails validation raises that validation error after
\* exactly one provider call and never makes a repair call.
C4_NoRepairWhenDisabled ==
    \A u \in UnitIds :
      LET f == units[u] IN
      (Validated /\ Attempts <= 0) =>
        /\ f.ncalls <= 1
        /\ f.pc # "repair"
        /\ ~f.lastCall.repair
        /\ (f.ncalls = 1 /\ ~f.lastCall.raised /\ Invalid(f.data)) =>
             /\ f.pc = "err"
             /\ f.err = SchemaValidationError(validate_output(f.data))
             /\ (EngineEntry => call = "raised" /\ resp.err = f.err)

C4_Witness ==
    \E u \in UnitIds :
      /\ Validated /\ Attempts < 0
      /\ units[u].pc = "err" /\ IsValidationError(units[u].err)
      /\ units[u].ncalls = 1 /\ provCalls = 1

\* C5: a provider call that raises ProviderError, initial or repair, ends the
\* unit with that ProviderError at once (in the engine it leaves extract), and
\* the unit makes no further provider call, whatever repair_attempts is.
C5_Raised ==
    \A u \in UnitIds :
      LET f == units[u] IN
      f.lastCall.raised =>
        /\ f.pc = "err" /\ f.err = ProviderError
        /\ (EngineEntry => call = "raised" /\ resp = Raised(ProviderError))

C5_NoFurtherCall ==
    \A u \in UnitIds :
      units[u].lastCall.raised =>
        /\ units'[u] = units[u]
        /\ (EngineEntry => provCalls' = provCalls)

C5_ProviderErrorPropagates == []C5_Raised /\ [][C5_NoFurtherCall]_vars

C5_Witness ==
    \E u \in UnitIds :
      /\ units[u].lastCall.raised /\ units[u].lastCall.repair
      /\ Attempts = 2 /\ units[u].ncalls = 2
      /\ units[u].err = ProviderError

\* C6: extract with more than MAX_DOCS_PER_EXTRACTION documents, and
\* extract_grouped with groups totalling more than that, raise the
\* ExtractionError with no document loaded, no unit built and no provider
\* call made.
OverLimit ==
    \/ req.entry = "extract" /\ Len(req.docs) > MAX_DOCS_PER_EXTRACTION
    \/ req.entry = "extract_grouped" /\ SumLen(req.groups) > MAX_DOCS_PER_EXTRACTION

C6_DocLimitBeforeWork ==
    OverLimit =>
      /\ provCalls = 0 /\ loads = 0 /\ units = <<>>
      /\ call \in {"start", "raised"}
      /\ (call = "raised" => resp = Raised(TooManyDocuments))

C6_Witness ==
    /\ req.entry = "extract_grouped"
    /\ SumLen(req.groups) > MAX_DOCS_PER_EXTRACTION
    /\ \A k \in 1..Len(req.groups) : Len(req.groups[k].docs) <= MAX_DOCS_PER_EXTRACTION
    /\ ~req.uriOnly
    /\ call = "raised" /\ resp.err.type = "ExtractionError"

\* the number of documents of an HTTP request, over all of its work units
http_total_docs(r) == IF r.mode = "grouped" THEN SumLen(r.groups) ELSE Len(r.docs)

\* C7 (as claimed): an HTTP /extract request, in any mode, whose documents
\* total more than MAX_DOCS_PER_EXTRACTION over all its units fails with the
\* size-limit error and dispatches no provider call for any unit.
C7_HttpRequestWideLimit ==
    (req.entry = "http" /\ http_total_docs(req) > MAX_DOCS_PER_EXTRACTION) =>
      /\ provCalls = 0
      /\ (call = "responded" =>
            resp.kind = "error" /\ resp.err.msg = TooManyDocuments.msg)

\* the unit run for document k of a per_file request
PerFileUnitOf(k) ==
    CHOOSE u \in UnitIds : units[u].docs = <<req.docs[k]>> /\ units[u].att = <<req.docs[k]>>

\* C8: a per_file call that succeeds returns a list with exactly one result
\* per input document, the i-th being the result of the unit run for the
\* i-th document and naming that document, in every order of completion,
\* from engine extract and from the HTTP handler.
C8_PerFileOrder ==
    (Mode = "per_file" /\ call \in {"returned", "responded"}
       /\ resp.kind # "error") =>
      /\ resp.kind = "list"
      /\ Len(resp.per) = Len(req.docs)
      /\ \A k \in 1..Len(req.docs) :
           /\ resp.per[k].docs = <<req.docs[k]>>
           /\ Cardinality({u \in UnitIds : units[u].att = <<req.docs[k]>>}) = 1
           /\ resp.per[k].data = units[PerFileUnitOf(k)].payload
           /\ units[PerFileUnitOf(k)].pc = "ok"

C8_Witness ==
    /\ req.entry = "http" /\ req.mode = "per_file"
    /\ call = "responded" /\ resp.kind = "list"
    /\ Len(resp.per) = MAX_DOCS_PER_EXTRACTION + 1
    /\ max_workers(req) > 1
    /\ resp.per[1].data # resp.per[2].data
    /\ units[1].ncalls > units[2].ncalls

\* every unit's first output was accepted
NoRepairs == \A u \in UnitIds : units[u].ncalls = 1 /\ units[u].pc = "ok"

\* C9: extract over N documents whose outputs all validate makes N provider
\* calls in per_file mode, the i-th with document i as its only attachment;
\* one call with all N documents in aggregate mode; N + 1 calls in both mode
\* (the N per-file units, then the aggregate unit with all documents), which
\* returns a MultiResult with N per_file results and a non-null aggregate.
C9_Returned ==
    (req.entry = "extract" /\ call = "returned" /\ NoRepairs) =>
      LET n == Len(req.docs) IN
      /\ Mode = "per_file" =>
           /\ provCalls = n /\ Len(units) = n
           /\ resp.kind = "list" /\ Len(resp.per) = n
           /\ \A k \in 1..n : units[k].lastCall.att = <<req.docs[k]>>
      /\ Mode = "aggregate" =>
           /\ provCalls = 1 /\ Len(units) = 1
           /\ resp.kind = "single" /\ resp.agg # NoResult
           /\ units[1].lastCall.att = req.docs
      /\ Mode = "both" =>
           /\ provCalls = n + 1 /\ Len(units) = n + 1
           /\ resp.kind = "multi" /\ Len(resp.per) = n /\ resp.agg # NoResult
           /\ resp.agg.docs = req.docs
           /\ \A k \in 1..n : units[k].lastCall.att = <<req.docs[k]>>
           /\ units[n + 1].lastCall.att = req.docs

\* the u-th unit's call is the u-th provider call when no repair call was made
C9_CallOrder ==
    \A u \in UnitIds :
      (req.entry = "extract" /\ units[u].pc = "waiting" /\ units'[u].ncalls = 1
         /\ \A v \in 1..(u - 1) : units[v].ncalls = 1)
      => provCalls' = u

C9_WorkUnits == []C9_Returned /\ [][C9_CallOrder]_vars

C9_Witness ==
    /\ req.entry = "extract" /\ req.mode = "both" /\ call = "returned"
    /\ NoRepairs
    /\ Len(req.docs) = MAX_DOCS_PER_EXTRACTION
    /\ provCalls = MAX_DOCS_PER_EXTRACTION + 1
    /\ resp.kind = "multi"

\* C10 (as claimed): a grouped extraction that succeeds returns one entry per
\* caller-supplied group, in the caller's order, each with that group's id and
\* the result of that group's own unit; a group whose unit produced no result
\* fails the whole request.
C10_GroupedEntries ==
    (req.mode = "grouped" /\ call \in {"returned", "responded"}) =>
      IF \E u \in UnitIds : units[u].pc # "ok"
      THEN resp.kind = "error"
      ELSE /\ resp.kind = "grouped"
           /\ Len(resp.groups) = Len(req.groups)
           /\ \A k \in 1..Len(req.groups) :
                /\ resp.groups[k].group_id = req.groups[k].id
                /\ resp.groups[k].result.docs = req.groups[k].docs
                /\ resp.groups[k].result.data = units[k].payload

\* some work unit ended in an error
SomeUnitFailed == \E u \in UnitIds : units[u].pc = "err"

\* C11 (as claimed): in every mode, once one work unit has ended in an
\* unrecoverable error the whole call fails (the engine raises that error,
\* the HTTP handler answers with an error) and no result of a unit that
\* succeeded is returned.
C11_NoPartialSuccess ==
    SomeUnitFailed =>
      /\ call \in {"units", "raised", "responded"}
      /\ (EngineEntry => call = "raised" /\ resp.kind = "error")
      /\ (call = "responded" =>
            /\ resp.kind = "error" /\ resp.status = 502
            /\ resp.per = <<>> /\ resp.agg = NoResult /\ resp.groups = <<>>)

\* an optional string that was given (neither None nor empty)
Given(x) == x # None /\ x # ""

\* the mode the claimed precedence yields for the call
PrecedenceMode ==
    IF Given(req.mode) THEN req.mode
    ELSE IF req.profile.present /\ Given(req.profile.multi_mode_default)
    THEN req.profile.multi_mode_default
    ELSE DEFAULT_MULTI_MODE

\* the number of units extract runs in a mode over n documents
UnitCount(mode, n) ==
    (IF mode \in {"per_file", "both"} THEN n ELSE 0)
    + (IF mode \in {"aggregate", "both"} THEN 1 ELSE 0)

\* C12: extract works in the caller's multi_mode if given (non-empty), else
\* in the profile's multi_mode_default if a profile with one is given, else
\* in the system default; when that value is not a recognised mode, extract
\* raises ExtractionError with no document loaded, no unit built and no
\* provider call made.
C12_ModeResolution ==
    (req.entry = "extract" /\ extract_guard(req.docs) = NoErr) =>
      IF PrecedenceMode \in {"per_file", "aggregate", "both"}
      THEN /\ (call = "raised" => resp.err # InvalidMode(PrecedenceMode))
           /\ (units # <<>> =>
                 /\ Len(units) = UnitCount(PrecedenceMode, Len(req.docs))
                 /\ \A u \in UnitIds :
                      units[u].label =
                        IF PrecedenceMode = "aggregate" \/ u > Len(req.docs)
                        THEN "aggregate" ELSE "per_file")
           /\ (call = "returned" => resp.kind = return_kind(PrecedenceMode))
      ELSE /\ provCalls = 0 /\ loads = 0 /\ units = <<>>
           /\ call \in {"start", "raised"}
           /\ (call = "raised" => resp = Raised(InvalidMode(PrecedenceMode)))

C12_Witness ==
    /\ req.entry = "extract" /\ Len(req.docs) = MAX_DOCS_PER_EXTRACTION
    /\ req.mode = None /\ req.profile = Profile("bogus") /\ ~req.uriOnly
    /\ call = "raised" /\ resp.err.type = "ExtractionError"
    /\ resp.err.msg = "Invalid multi-mode: bogus"
    /\ loads = 0 /\ provCalls = 0

\* C13: extract called with a profile whose multi_mode_default is "aggregate"
\* and without a multi_mode argument returns, when it returns, exactly one
\* ExtractionResult (no list, no MultiResult) with meta.mode "aggregate" and
\* meta.docs the names of all input documents in input order.
C13_ProfileDefaultAggregate ==
    (req.entry = "extract" /\ req.mode = None
       /\ req.profile = Profile("aggregate") /\ call = "returned") =>
      /\ resp.kind = "single"
      /\ resp.per = <<>> /\ resp.groups = <<>>
      /\ resp.agg # NoResult
      /\ resp.agg.mode = "aggregate"
      /\ resp.agg.docs = req.docs
      /\ Len(units) = 1 /\ resp.agg.data = units[1].payload

C13_Witness ==
    /\ req.entry = "extract" /\ req.mode = None
    /\ req.profile = Profile("aggregate")
    /\ Len(req.docs) = MAX_DOCS_PER_EXTRACTION
    /\ call = "returned" /\ resp.kind = "single"
    /\ resp.agg.docs = DocSeq(1, MAX_DOCS_PER_EXTRACTION)

\* `payload.workers` if the payload carries one, else the configured default
RequestedOrDefault(r) ==
    IF r.workers.given THEN r.workers.v ELSE r.cfg.default_workers

\* C14 (as claimed): the effective worker count of an accepted request is
\* min(requested workers or configured default, configured maximum, number of
\* work units), and it is at least 1.
C14_WorkerCountAsClaimed ==
    ret.fn = "max_workers" =>
      /\ ret.out = Min(Min(RequestedOrDefault(arg.in), arg.in.cfg.max_workers),
                       Len(http_items(arg.in)))
      /\ ret.out >= 1

\* C14 (amended): the effective worker count of an accepted request is
\* min(max(1, requested workers or configured default), max(1, configured
\* maximum), number of work units): both values are raised to at least 1
\* before the minimum is taken, so the count is at least 1 and at most the
\* number of work units, for non-positive workers and maxima as well.
C14_WorkerCountClamped ==
    ret.fn = "max_workers" =>
      /\ ret.out = Min(Min(Max(1, RequestedOrDefault(arg.in)),
                           Max(1, arg.in.cfg.max_workers)),
                       Len(http_items(arg.in)))
      /\ ret.out >= 1
      /\ ret.out <= Len(http_items(arg.in))

C14_Witness ==
    /\ ret.fn = "max_workers"
    /\ arg.in.workers.given /\ arg.in.workers.v <= 0
    /\ arg.in.cfg.max_workers <= 0
    /\ Len(http_items(arg.in)) > 1
    /\ ret.out = 1

\* the units between acquiring and releasing a slot
Executing == {u \in UnitIds : units[u].pc \in {"ready", "repair"}}

\* the effective worker count of the request being handled
EffectiveWorkers ==
    Min(Min(Max(1, RequestedOrDefault(req)), Max(1, req.cfg.max_workers)),
        Len(units))

\* C15: in the HTTP handler the number of executing units never exceeds the
\* effective worker count, and every executing unit holds exactly one slot
\* from its acquisition until it ends, through its initial call and all its
\* repair calls (free slots + executing units = effective worker count).
C15_SlotsHeld ==
    (req.entry = "http" /\ call # "start") =>
      /\ Cardinality(Executing) <= EffectiveWorkers
      /\ sem >= 0
      /\ sem + Cardinality(Executing) = EffectiveWorkers

\* every provider call is made by a unit that holds a slot, one call per
\* step of that unit: the calls of one unit follow one another
C15_CallsInSlot ==
    req.entry = "http" =>
      \A u \in UnitIds :
        units'[u].ncalls # units[u].ncalls =>
          /\ u \in Executing
          /\ units'[u].ncalls = units[u].ncalls + 1
          /\ units'[u].lastCall.repair = (units[u].ncalls >= 1)
          /\ \A v \in UnitIds \ {u} : units'[v] = units[v]

\* C15: the slot accounting holds in every state, and every provider call
\* is made inside a slot, the calls of one unit one after the other.
C15_SlotBound == []C15_SlotsHeld /\ [][C15_CallsInSlot]_vars

C15_Witness ==
    /\ req.entry = "http" /\ Attempts = 2
    /\ Len(units) = MAX_DOCS_PER_EXTRACTION + 1
    /\ EffectiveWorkers = 2 /\ sem = 0
    /\ units[1].pc = "repair" /\ units[1].ncalls = 2
    /\ units[2].pc = "repair" /\ units[2].ncalls = 2
    /\ units[3].pc = "waiting"

\* C16: with a null schema a unit makes exactly one provider call, never
\* validates (no validation error is caught or raised, whatever the output),
\* never enters the repair loop whatever repair_attempts is, and returns the
\* provider's output unchanged as its payload.
C16_NullSchemaRawOutput ==
    req.schemaNull =>
      \A u \in UnitIds :
        LET f == units[u] IN
        /\ f.ncalls <= 1
        /\ f.pc # "repair" /\ ~f.lastCall.repair
        /\ f.exc = NoErr /\ ~IsValidationError(f.err)
        /\ (f.ncalls = 1 /\ ~f.lastCall.raised) =>
             /\ f.pc = "ok"
             /\ f.payload = f.data
             /\ f.data \in ProviderOutputs

C16_Witness ==
    \E u \in UnitIds :
      /\ req.schemaNull /\ Attempts = MaxRepair
      /\ units[u].pc = "ok" /\ units[u].ncalls = 1
      /\ units[u].data = BadItemsScalar
      /\ units[u].payload = BadItemsScalar
      /\ call = "returned"

OptionFields ==
    {"model_name", "temperature", "top_p", "max_output_tokens", "attachment_strategy"}

\* the two fields ProviderOptions.merged combines with `or`
StringFields == {"model_name", "attachment_strategy"}

\* C18 (as claimed): merged yields, for each of the five fields, the
\* override's value when it is non-null and the base value otherwise.
C18_MergedNonNullWins ==
    (ret.fn = "merged" /\ arg.in.override.present) =>
      \A k \in OptionFields :
        ret.out[k] = IF arg.in.override[k] # None THEN arg.in.override[k]
                     ELSE arg.in.self[k]

\* the value of field k an options object sets, None when it sets none:
\* unset, or empty for the two string fields
Sets(o, k) ==
    IF ~o.present \/ o[k] = None \/ (k \in StringFields /\ o[k] = "") THEN None
    ELSE o[k]

\* C18 (amended), merged: for temperature, top_p and max_output_tokens the
\* override's value wins when it is non-null; for model_name and
\* attachment_strategy it wins when it is non-null and non-empty; the base
\* value is kept otherwise; merged(None) is the base itself.
C18_Merged ==
    ret.fn = "merged" =>
      IF ~arg.in.override.present THEN ret.out = arg.in.self
      ELSE \A k \in OptionFields :
             ret.out[k] = IF Sets(arg.in.override, k) # None
                          THEN arg.in.override[k] ELSE arg.in.self[k]

\* C18 (amended), precedence: the options of a request carry, per field, the
\* caller's value if the caller sets one, else the profile's if the profile
\* sets one, else the hardcoded default.
C18_ThreeLayers ==
    ret.fn = "merge_options" =>
      \A k \in OptionFields :
        ret.out[k] = IF Sets(arg.in.options, k) # None THEN arg.in.options[k]
                     ELSE IF Sets(arg.in.profile_options, k) # None
                     THEN arg.in.profile_options[k]
                     ELSE DefaultOptions[k]

\* C18 (amended): merged and the three-layer precedence together.
C18_MergePrecedence == C18_Merged /\ C18_ThreeLayers

C18_Witness ==
    /\ ret.fn = "merge_options"
    /\ arg.in.options.present /\ arg.in.profile_options.present
    /\ arg.in.options.model_name = ""
    /\ arg.in.options.temperature = "caller-temperature"
    /\ arg.in.profile_options.model_name = "profile-model"
    /\ arg.in.profile_options.temperature = "profile-temperature"
    /\ arg.in.profile_options.max_output_tokens = None
    /\ ret.out.model_name = "profile-model"
    /\ ret.out.temperature = "caller-temperature"
    /\ ret.out.max_output_tokens = DEFAULT_MAX_OUTPUT_TOKENS

\* C17: the meta of an ExtractionResult returned by _single_call has docs
\* equal to the unit's document names in order, mode equal to the unit's mode
\* label, profile equal to the profile's name (null without a profile), and
\* model equal to the model the provider reports when it reports one, else
\* to the requested model name (null when no options were passed).
C17_ResultMeta ==
    ret.fn = "meta" =>
      /\ ret.out.docs = arg.in.doc_names
      /\ ret.out.mode = arg.in.mode
      /\ ret.out.profile =
           IF arg.in.profile.present THEN arg.in.profile.name ELSE None
      /\ ret.out.model =
           IF Given(arg.in.provider.last_model) THEN arg.in.provider.last_model
           ELSE IF arg.in.options.present THEN arg.in.options.model_name
           ELSE None
      /\ ret.out.usage = arg.in.provider.last_usage

C17_Witness ==
    /\ ret.fn = "meta"
    /\ arg.in.provider.last_model = "reported-model"
    /\ arg.in.options.present /\ arg.in.options.model_name = "requested-model"
    /\ arg.in.doc_names = <<2, 1>> /\ arg.in.profile.present
    /\ ret.out.model = "reported-model" /\ ret.out.docs = <<2, 1>>
    /\ ret.out.profile = "invoices"

\* C19: the system instruction _build_prompt returns is the profile's when
\* the profile has a non-empty one, else the fixed default; the first part
\* of the prompt is the profile's prompt when it has one (non-empty), else
\* its description when it has one, else the default of the mode (describe,
\* extract_all, or plain extraction); the multiple-documents line follows
\* exactly when aggregate is true, and nothing else is in the prompt.
C19_PromptComposition ==
    ret.fn = "build_prompt" =>
      LET p == arg.in.profile
          has(x) == p.present /\ x # None /\ x # ""
      IN  /\ ret.out.system_instruction =
                IF has(p.system_instruction) THEN p.system_instruction
                ELSE DefaultSystemInstruction
          /\ Len(ret.out.lines) = IF arg.in.aggregate THEN 2 ELSE 1
          /\ has(p.prompt) => ret.out.lines[1] = p.prompt
          /\ (~has(p.prompt) /\ has(p.description)) =>
                ret.out.lines[1] = p.description
          /\ (~has(p.prompt) /\ ~has(p.description)) =>
                ret.out.lines[1] =
                  IF p.present /\ p.mode = "describe" THEN DescribePrompt
                  ELSE IF p.present /\ p.name = "extract_all" THEN ExtractAllPrompt
                  ELSE ExtractPrompt
          /\ arg.in.aggregate => ret.out.lines[2] = MultipleDocumentsLine
          /\ \A k \in 1..Len(ret.out.lines) :
               (ret.out.lines[k] = MultipleDocumentsLine) = (arg.in.aggregate /\ k = 2)

C19_Witness ==
    /\ ret.fn = "build_prompt"
    /\ arg.in.profile.present /\ arg.in.aggregate
    /\ arg.in.profile.prompt = "" /\ arg.in.profile.description = "profile description"
    /\ arg.in.profile.system_instruction = None
    /\ ret.out.lines = <<"profile description", MultipleDocumentsLine>>
    /\ ret.out.system_instruction = DefaultSystemInstruction

\* C20: normalization is idempotent: for every schema S and every value V
\* that passes validate(S, V), normalize(S, normalize(S, V)) equals
\* normalize(S, V) (and the normalized value still passes validation).
C20_NormalizeIdempotent ==
    (ret.fn = "normalize" /\ ret.out.applied = 2) =>
      /\ validate(arg.in.schema, arg.in.value) = ""
      /\ ret.out.twice = ret.out.once
      /\ validate(arg.in.schema, ret.out.once) = ""

C20_Witness ==
    /\ ret.fn = "normalize" /\ ret.out.applied = 2
    /\ arg.in.schema = Schema("optional", TRUE)
    /\ arg.in.value.title = "ABSENT" /\ arg.in.value.items.st = "absent"
    /\ arg.in.value.extra = "x"
    /\ ret.out.once # arg.in.value
    /\ ret.out.once.title = "NULL" /\ ret.out.once.items.st = "array"
    /\ ret.out.twice = ret.out.once

\* C21: normalization is complete and non-destructive: for every schema S and
\* every object V, normalize(S, V) is produced (it never fails) and holds
\* every declared global field (null when V lacks it) and every declared
\* record set as an array (empty when V lacks it) whose records hold every
\* declared record field (null when absent), while every key of V that S does
\* not declare keeps its value.
C21_NormalizeComplete ==
    (arg.fn = "normalize_object" /\ ret.fn # "none") =>
      LET S == arg.in.schema
          V == arg.in.value
          N == ret.out
      IN  /\ ret.fn = "normalize_object"
          /\ N.obj
          /\ S.title # "undeclared" =>
                /\ N.title # "ABSENT"
                /\ N.title = (IF V.title = "ABSENT" THEN "NULL" ELSE V.title)
          /\ S.items =>
                /\ N.items.st = "array"
                /\ V.items.st = "absent" => N.items.recs = <<>>
                /\ V.items.st = "array" => Len(N.items.recs) = Len(V.items.recs)
                /\ \A k \in 1..Len(N.items.recs) :
                      N.items.recs[k].obj =>
                        /\ N.items.recs[k].qty # "ABSENT"
                        /\ V.items.recs[k].obj
                        /\ N.items.recs[k].qty =
                             (IF V.items.recs[k].qty = "ABSENT" THEN "NULL"
                              ELSE V.items.recs[k].qty)
          /\ S.title = "undeclared" => N.title = V.title
          /\ ~S.items => N.items = V.items
          /\ N.extra = V.extra

C21_Witness ==
    /\ arg.fn = "normalize_object" /\ ret.fn = "normalize_object"
    /\ arg.in.schema = Schema("required", TRUE)
    /\ validate(arg.in.schema, arg.in.value) # ""
    /\ arg.in.value.title = "ABSENT" /\ arg.in.value.extra = "x"
    /\ arg.in.value.items.recs = <<Rec(TRUE, "ABSENT"), Rec(TRUE, "3")>>
    /\ ret.out.title = "NULL" /\ ret.out.extra = "x"
    /\ ret.out.items.recs = <<Rec(TRUE, "NULL"), Rec(TRUE, "3")>>

\* a declared key of v carries a value of another type than the declared one
WrongType(S, v) ==
    \/ S.title # "undeclared" /\ v.title = "12"
    \/ S.items /\ \E k \in 1..Len(v.items.recs) : v.items.recs[k].qty = "three"

\* C22: validate(schema, value) fails with SchemaValidationError exactly when
\* the value is not an object, or a required global field is missing from
\* it, or a present record-set member is not an array of objects; a value
\* whose type differs from the declared type never makes validation fail.
C22_ValidateExact ==
    (arg.fn = "validate" /\ ret.fn # "none") =>
      LET S == arg.in.schema
          V == arg.in.value
          notObject == ~V.obj
          missingRequired == V.obj /\ S.title = "required" /\ V.title = "ABSENT"
          badRecordSet ==
              /\ V.obj /\ S.items /\ V.items.st # "absent"
              /\ \/ V.items.st # "array"
                 \/ \E k \in 1..Len(V.items.recs) : ~V.items.recs[k].obj
      IN  /\ ret.fn = "validate"
          /\ ret.out # NoErr
                <=> (notObject \/ missingRequired \/ badRecordSet)
          /\ ret.out # NoErr => ret.out.type = "SchemaValidationError"
          /\ (WrongType(S, V) /\ ~(notObject \/ missingRequired \/ badRecordSet))
                => ret.out = NoErr

C22_Witness ==
    /\ arg.fn = "validate" /\ ret.fn = "validate"
    /\ arg.in.schema = Schema("required", TRUE)
    /\ arg.in.value.title = "12"
    /\ arg.in.value.items.recs = <<Rec(TRUE, "three")>>
    /\ ret.out = NoErr

\* the status the error-mapping rule gives an error class: not found (404),
\* bad request (400), bad gateway (502)
StatusOf(type) ==
    IF type = "DocumentError" THEN 404
    ELSE IF type \in {"SchemaError", "ExtractionError"} THEN 400
    ELSE 502

\* the failed work unit whose error the response reports
ReportedUnit ==
    IF req.mode = "grouped"
    THEN LET bad == {k \in 1..Len(req.groups) :
                       res_map(units, req.groups[k].id).pc = "err"}
         IN  res_map(units, req.groups[SetMin(bad)].id)
    ELSE units[SetMin({k \in 1..Len(units) : units[k].pc = "err"})]

\* C23: at the HTTP boundary each error class has its own status class: a
\* missing profile or a DocumentError is answered not-found, a SchemaError or
\* ExtractionError (too many documents included) bad-request, a ProviderError
\* or an exhausted repair loop bad-gateway.
C23_StatusByErrorClass ==
    (req.entry = "http" /\ call = "responded" /\ resp.kind = "error") =>
      IF ~req.profile.present THEN resp.status = 404
      ELSE /\ resp.err.msg = ReportedUnit.err.msg
           /\ resp.status = StatusOf(ReportedUnit.err.type)

\* C24: every response of the service's HTTP endpoints has the uniform
\* envelope: a success response is {data, meta, errors} with errors empty,
\* and every failure response (bad request, payload too large, model call
\* failure, event handler failure) is {data: null, meta, errors: [...]} with
\* at least one error object carrying code and message.
C24_UniformEnvelope ==
    (ret.fn \in {"extract_data", "events_entrypoint"}) =>
      /\ ret.out.status = 200 =>
            (ret.out.keys = EnvelopeKeys /\ ret.out.errors = <<>>)
      /\ ret.out.status >= 400 =>
            /\ ret.out.keys = EnvelopeKeys
            /\ ret.out.data = "null"
            /\ Len(ret.out.errors) >= 1
            /\ \A k \in 1..Len(ret.out.errors) :
                  ret.out.errors[k].code # None /\ ret.out.errors[k].message # None

\* the attachment_strategy in effect for the documents of a request
EffectiveStrategy(options) ==
    IF options.present /\ options.attachment_strategy = "uri" THEN "uri" ELSE "bytes"

\* C25: under the effective attachment_strategy "uri" every GCS or HTTP
\* document is passed to the provider as its URI string and its bytes are
\* never loaded; in every other case (strategy bytes or unset, or a local
\* file or raw text) the document's bytes are loaded, in document order,
\* and passed; one strategy holds for all documents of the request.
C25_AttachmentStrategy ==
    (ret.fn = "load_docs") =>
      LET docs == arg.in.docs
          out == ret.out
          uri == EffectiveStrategy(arg.in.options) = "uri"
          isLoaded(k) == \E j \in 1..Len(out.loaded) : out.loaded[j] = k
      IN  /\ Len(out.attachments) = Len(docs)
          /\ \A k \in 1..Len(docs) :
                /\ out.attachments[k].name = k
                /\ IF uri /\ docs[k] \in {"GcsSource", "HttpSource"}
                   THEN out.attachments[k].content = UriOf(k) /\ ~isLoaded(k)
                   ELSE out.attachments[k].content = ContentOf(k) /\ isLoaded(k)
          /\ \A i, j \in 1..Len(out.loaded) : i < j => out.loaded[i] < out.loaded[j]

C25_Witness ==
    /\ ret.fn = "load_docs"
    /\ arg.in.options.present /\ arg.in.options.attachment_strategy = "uri"
    /\ arg.in.docs = <<"GcsSource", "FileSource">>
    /\ ret.out.attachments[1].content = UriOf(1)
    /\ ret.out.attachments[2].content = ContentOf(2)
    /\ ret.out.loaded = <<2>>

\* C26: extract with an empty document list and extract_grouped with an empty
\* group list raise DocumentError with zero document loads and zero provider
\* calls; in extract every document is loaded before any unit is dispatched,
\* so a document that fails to load raises DocumentError before the first
\* provider call of the request.
C26_NoWorkOnDocumentError ==
    /\ (req.entry = "extract" /\ req.docs = <<>> /\ call # "start") =>
          /\ call = "raised" /\ resp.err = NoDocuments
          /\ resp.err.type = "DocumentError"
          /\ loads = 0 /\ provCalls = 0 /\ units = <<>>
    /\ (req.entry = "extract_grouped" /\ req.groups = <<>> /\ call # "start") =>
          /\ call = "raised" /\ resp.err = NoGroups
          /\ resp.err.type = "DocumentError"
          /\ loads = 0 /\ provCalls = 0 /\ units = <<>>
    /\ (req.entry = "extract" /\ call = "raised" /\ resp.err = LoadFailed) =>
          /\ resp.err.type = "DocumentError"
          /\ provCalls = 0 /\ units = <<>>
          /\ loads \in 1..Len(req.docs)
    /\ (req.entry = "extract" /\ provCalls > 0) =>
          loads = (IF req.uriOnly THEN 0 ELSE Len(req.docs))

C26_Witness ==
    /\ req.entry = "extract" /\ Len(req.docs) = 2 /\ ~req.uriOnly
    /\ call = "raised" /\ resp.err = LoadFailed
    /\ loads = 2 /\ provCalls = 0

\* a client call was rejected with ConfigError and no HTTP request was sent
Rejected == ret.out.error.type = "ConfigError" /\ ret.out.requests = 0

\* the service mode of a remote call that passed the mode mapping
ServiceMode(c) == client_resolved_mode(c.service_mode, c.multi_mode).mode

\* invalid remote configuration other than multi_mode "both"
InvalidRemoteCall(c) ==
    \/ c.profile_name = None
    \/ \E k \in 1..Len(c.files) : c.files[k].scheme \notin {"gs://", "http://", "https://"}
    \/ ServiceMode(c) # "grouped" /\ c.files = <<>>
    \/ ServiceMode(c) = "grouped" /\ (~c.groups.given \/ c.groups.list = <<>>)

C27_InitRejected ==
    (ret.fn = "client_init"
       /\ arg.in.mode = "remote"
       /\ arg.in.config_endpoint \in {None, ""} /\ arg.in.endpoint_url \in {None, ""})
      => Rejected

\* C27 (as stated): DocflowClient rejects with ConfigError, before any HTTP
\* request is sent, remote mode without an endpoint URL, a remote call
\* without a profile name, multi_mode "both", a file that is no gs://,
\* http:// or https:// URI, no files in a non-grouped mode, and grouped mode
\* without groups.
C27_RejectsInvalidConfig ==
    /\ C27_InitRejected
    /\ (ret.fn = "execute_remote"
          /\ (InvalidRemoteCall(arg.in) \/ Lower(arg.in.multi_mode) = "both"))
         => Rejected

\* C27 (amended): as above, with multi_mode "both" rejected when the call
\* carries no service_mode; and a call that ends with ConfigError has sent
\* no HTTP request.
C27_RejectsInvalidConfigUnlessServiceMode ==
    /\ C27_InitRejected
    /\ (ret.fn = "execute_remote"
          /\ \/ InvalidRemoteCall(arg.in)
             \/ Lower(arg.in.multi_mode) = "both" /\ arg.in.service_mode \in {None, ""})
         => Rejected
    /\ (ret.fn \in {"client_init", "execute_remote"}
          /\ ret.out.error.type = "ConfigError")
         => ret.out.requests = 0

C27_Witness ==
    /\ ret.fn = "execute_remote"
    /\ arg.in.profile_name # None
    /\ arg.in.multi_mode = "both" /\ arg.in.service_mode = None
    /\ Len(arg.in.files) = 2
    /\ \A k \in 1..2 : arg.in.files[k].scheme = "gs://"
    /\ Rejected

\* C28: only a SchemaValidationError starts or continues the repair loop of
\* _single_call: every provider call after the initial one follows an output
\* that failed with SchemaValidationError, and any other error raised while
\* validating or normalizing an output leaves _single_call at once.
C28_OnlyValidationErrorsRepair ==
    (arg.fn = "single_call") =>
      /\ \A j \in 2..Len(stubCalls) :
            validation_exception(stubCalls[j - 1].out).type = "SchemaValidationError"
      /\ (/\ stubCalls # <<>>
          /\ arg.in.internal_schema # None
          /\ stubCalls[Len(stubCalls)].out = Unprocessable)
           => (units[1].pc = "err" /\ units[1].err = UnexpectedError)

\* C29: every repair call of _single_call passes the schema, the options and
\* the system instruction of the unit's initial call and an empty attachment
\* list; only the initial call carries the unit's attachments.
C29_RepairCallArguments ==
    (arg.fn = "single_call" /\ stubCalls # <<>>) =>
      /\ ~stubCalls[1].prompt.repair
      /\ stubCalls[1].attachments = arg.in.attachments
      /\ stubCalls[1].attachments # <<>>
      /\ \A j \in 2..Len(stubCalls) :
            /\ stubCalls[j].prompt.repair
            /\ stubCalls[j].schema = stubCalls[1].schema
            /\ stubCalls[j].options = stubCalls[1].options
            /\ stubCalls[j].system_instruction = stubCalls[1].system_instruction
            /\ stubCalls[j].attachments = <<>>

C29_Witness ==
    /\ arg.fn = "single_call" /\ Len(stubCalls) = 3
    /\ arg.in.system_instruction = "profile instruction"
    /\ arg.in.options.present
    /\ arg.in.attachments = <<1, 2>>
    /\ stubCalls[3].system_instruction = "profile instruction"
    /\ stubCalls[3].attachments = <<>>

\* C30: the prompt of the j-th repair call (j >= 1) embeds the output and the
\* validation error message of the provider call made just before it (the
\* initial call for j = 1, the (j-1)-th repair call otherwise), never those
\* of an earlier call.
C30_RepairPromptEmbedsPrevious ==
    (arg.fn = "single_call") =>
      \A j \in 2..Len(stubCalls) :
        /\ stubCalls[j].prompt.json = stubCalls[j - 1].out
        /\ stubCalls[j].prompt.error_msg = validation_exception(stubCalls[j - 1].out).msg
        /\ stubCalls[j].prompt.error_msg # ""

C30_Witness ==
    /\ arg.fn = "single_call" /\ Len(stubCalls) = 3
    /\ stubCalls[1].out = BadMissingTitle
    /\ stubCalls[2].out = BadItemsScalar
    /\ stubCalls[2].prompt.json = BadMissingTitle
    /\ stubCalls[2].prompt.error_msg = "missing required field: title"
    /\ stubCalls[3].prompt.json = BadItemsScalar
    /\ stubCalls[3].prompt.error_msg = "items must be an array"


(***************************************************************************)
(* C31: in the HTTP handler every dispatched unit runs to completion or    *)
(* failure, whatever happens to its siblings: when the response (success   *)
(* or error) exists, every unit of the request has finished, and each has  *)
(* either made its provider call or failed its own document check.         *)
(***************************************************************************)
C31_AllUnitsFinishBeforeResponse ==
    (req.entry = "http" /\ call = "responded" /\ req.profile.present) =>
        /\ Len(units) = Len(http_items(req))
        /\ \A u \in 1..Len(units) :
              /\ Finished(units[u])
              /\ \/ units[u].ncalls >= 1
                 \/ extract_guard(units[u].docs) # NoErr

\* an error response after the first unit failed and a later one succeeded
C31_Witness ==
    /\ req.entry = "http"
    /\ call = "responded"
    /\ resp.status = 502
    /\ Len(units) >= 2
    /\ units[1].pc = "err"
    /\ \E u \in 2..Len(units) : units[u].pc = "ok" /\ units[u].ncalls >= 1


(***************************************************************************)
(* C32: the provider's last-call state is shared by the units of a request *)
(* and racy.  The meta a unit records is whatever last_model / last_usage  *)
(* hold when it reads them: its own call's values when the units run one   *)
(* at a time, and under concurrency possibly the values another unit's     *)
(* call wrote (the witness is such an interleaving).                       *)
(***************************************************************************)
\* the usage of the last call unit u made
OwnUsage(u) == [unit |-> u, call |-> units[u].ncalls]

C32_MetaOfSomeCall ==
    \A u \in DOMAIN metas :
        /\ units[u].pc = "ok"
        /\ metas[u].meta.usage.unit \in 1..Len(units)
        /\ metas[u].model_by \in 1..Len(units)
        /\ units[metas[u].meta.usage.unit].ncalls >= metas[u].meta.usage.call
        /\ max_workers(req) = 1 =>
              /\ metas[u].meta.usage = OwnUsage(u)
              /\ metas[u].model_by = u

C32_MetaReadFromSharedState ==
    \A u \in DOMAIN metas' \ DOMAIN metas :
        /\ metas'[u].meta.usage = providerState.last_usage
        /\ metas'[u].meta.model = providerState.last_model
        /\ metas'[u].model_by = providerState.model_by

C32_LastCallStateRacy == []C32_MetaOfSomeCall /\ [][C32_MetaReadFromSharedState]_vars

\* a unit returned with the usage of another unit's call in its meta, and
\* with a last_model that the other unit's call wrote
C32_Witness ==
    \E u \in DOMAIN metas :
        /\ metas[u].meta.usage.unit # u
        /\ metas[u].model_by # u
        /\ Len(units) >= 2


(***************************************************************************)
(* C33: the event handler persists results create-if-absent.  Among the    *)
(* requests that carry one request id, in sequence or concurrently, at     *)
(* most one writes results/<request id>.json; once written the object      *)
(* keeps that content; and every request that comes to persist when the    *)
(* object is there leaves it unchanged and reports already_exists = true.  *)
(***************************************************************************)
\* the object request k writes to
PathOf(k) == result_path(request_id(events[k].envelope, k))

\* the requests whose upload created the object at path p
Writers(p) == {k \in 1..Len(events) : PathOf(k) = p /\ events[k].created}

C33_WrittenOnce ==
    /\ \A p \in DOMAIN bucket :
         /\ Cardinality(Writers(p)) <= 1
         /\ Writers(p) = IF bucket[p] = 0 THEN {} ELSE {bucket[p]}
    /\ \A k \in 1..Len(events) :
         events[k].existed =>
           /\ ~events[k].created
           /\ events[k].already_exists
           /\ events[k].pc = "done" =>
                /\ events[k].response.status = 200
                /\ events[k].result.already_exists

C33_ObjectKept ==
    \A p \in DOMAIN bucket : bucket[p] # 0 => bucket'[p] = bucket[p]

C33_CreateIfAbsent == []C33_WrittenOnce /\ [][C33_ObjectKept]_vars

\* two requests with the request id r1 have returned: the first created the
\* object, the second found it and reported already_exists = true
C33_Witness ==
    /\ Len(events) >= 2
    /\ events[1].pc = "done" /\ events[2].pc = "done"
    /\ events[1].envelope.requestId = "r1" /\ events[2].envelope.requestId = "r1"
    /\ events[1].created
    /\ events[2].existed
    /\ events[2].result.already_exists
    /\ bucket[PathOf(2)] = 1


(***************************************************************************)
(* C34 (as claimed): in the HTTP handler's grouped mode, also when two     *)
(* groups share an id, every group entry of the response carries the data  *)
(* of that group's own unit, and the failure of any group's unit makes the *)
(* request fail with that unit's error or another failed unit's: no unit's *)
(* result or error is overwritten by another unit's.                       *)
(***************************************************************************)
C34_GroupResultsNotOverwritten ==
    (/\ req.entry = "http" /\ req.mode = "grouped"
     /\ req.profile.present /\ call = "responded") =>
      /\ (\E u \in 1..Len(units) : units[u].pc = "err") =>
            /\ resp.kind = "error"
            /\ \E u \in 1..Len(units) :
                 units[u].pc = "err" /\ resp.err.msg = units[u].err.msg
      /\ resp.kind = "grouped" =>
            \A k \in 1..Len(req.groups) :
                resp.groups[k].result.data = units[k].payload


(***************************************************************************)
(* C35 (as claimed): the repair_attempts given to DocflowClient.run_profile *)
(* (0, 1 or 2) is the number of repair attempts the extraction runs with,  *)
(* in remote mode through the request's repair block and in local mode as  *)
(* the repair_attempts of the engine's extract.                            *)
(***************************************************************************)
C35_RepairAttemptsHonoured ==
    ret.fn = "run_profile" =>
        /\ ret.out.repair_attempts = arg.in.repair_attempts
        /\ ret.out.iterations = arg.in.repair_attempts


(***************************************************************************)
(* C36: provided every provider call comes back, every POST /extract       *)
(* request is answered.  Every dispatched unit gets a slot, a unit gives   *)
(* its slot back when it ends, in success and in failure (so all slots are *)
(* free again when the response is produced), and the dispatch cannot      *)
(* deadlock, whatever the number of units and the effective worker count.  *)
(***************************************************************************)
C36_SlotsReleased ==
    (call = "responded" /\ req.profile.present) =>
        /\ sem = max_workers(req)
        /\ sem >= 1
        /\ \A u \in 1..Len(units) : Finished(units[u])

C36_Answered == (call = "start") ~> (call = "responded")

C36_EveryRequestAnswered == []C36_SlotsReleased /\ C36_Answered

\* a request of three units on one slot has been answered, a unit having
\* failed and a later one succeeded
C36_Witness ==
    /\ call = "responded"
    /\ Len(units) = 3
    /\ max_workers(req) = 1
    /\ sem = 1
    /\ units[1].pc = "err"
    /\ units[3].pc = "ok"


(***************************************************************************)
(* C37 (as claimed): whenever the event handler publishes or returns an    *)
(* extractions.ready envelope with a non-empty resultUri, a result object  *)
(* exists in storage at that URI, also after a failed persistence attempt. *)
(***************************************************************************)
C37_ReadyPointsToObject ==
    /\ \A i \in 1..Len(topic) :
         topic[i].resultUri # "" => bucket[result_path(topic[i].requestId)] # 0
    /\ \A k \in 1..Len(events) :
         (events[k].pc = "done" /\ events[k].response.status = 200
          /\ events[k].result.ready.resultUri # "") =>
            bucket[PathOf(k)] # 0


\* the envelope and the path qualify for a handler
Routable(e) ==
    /\ e.envelope.version = "1"
    /\ e.envelope.event \notin {None, ""}
    /\ e.envelope.event = e.event_name
    /\ e.envelope.payload \notin {"null", "scalar"}
    /\ e.event_name \in EVENT_HANDLERS

CarriesSchema(p) == p.present /\ p.schema.kind # "none"

(***************************************************************************)
(* C39: when extract or extract_grouped gets both a profile that carries a *)
(* schema and an explicit schema, the profile's schema is the one handed   *)
(* to the provider and used to validate and normalize, and the explicit    *)
(* one is ignored; the explicit schema is used only when there is no       *)
(* profile or the profile has no schema.                                   *)
(***************************************************************************)
C39_ProfileSchemaWins ==
    ret.fn = "resolve_schema" =>
        LET a == arg.in
            used == IF CarriesSchema(a.profile) THEN a.profile.schema.S
                    ELSE a.schema.S
            none == ~CarriesSchema(a.profile) /\ a.schema.kind = "none"
        IN  IF none
            THEN /\ ret.out.call_schema.kind = "none"
                 /\ ret.out.error = ""
                 /\ ret.out.payload = a.data
            ELSE /\ ret.out.call_schema.kind = "internal"
                 /\ ret.out.call_schema.S = used
                 /\ ret.out.error = validate(used, a.data)
                 /\ ret.out.error = "" => ret.out.payload = normalize(used, a.data)

\* a profile that requires `title` and an explicit dict schema that declares
\* nothing: the output without title is refused, by the profile's schema
C39_Witness ==
    /\ ret.fn = "resolve_schema"
    /\ arg.in.profile = SchemaProfile(SchemaArg("internal", Schema("required", TRUE)))
    /\ arg.in.schema = SchemaArg("dict", Schema("undeclared", FALSE))
    /\ arg.in.data = BadMissingTitle
    /\ ret.out.error # ""

====
